---- MODULE Spec2Model ----
(***************************************************************************)
(* Cats vs Dogs chess: the rules engine (chess-rules), the bot             *)
(* (chess-bot) and the game orchestrator (ChessGame component).            *)
(***************************************************************************)
EXTENDS Integers, Sequences, FiniteSets, TLC

VARIABLES
    board,              \* React state: (ChessPiece | null)[][]
    currentPlayer,      \* React state: side to move
    enPassantTarget,    \* chess-rules module variable
    gameStatus,         \* React state
    capturedPieces,     \* React state: per capturing side, list of pieces
    movesSinceLastCaptureOrPawn,
    positionHistory,
    gameHistory,        \* undo/redo snapshots
    historyIndex,
    laserPointerCount,
    boneCount,
    isLaserPointerActive,
    isBoneActive,
    promotion,          \* promotion dialog state
    gameSettings,
    botColor,
    isBotThinking,      \* isBotThinkingRef.current
    botTimer,           \* pending botTimeoutRef callback and its closure
    forceTimer,         \* pending botForceTimeoutRef callback and its closure
    moveCompleted,      \* the flag shared by the two pending callbacks
    saved,              \* localStorage entry "catsdogs-chess-save"
    plies,              \* number of operations applied so far (bounded)
    last                \* record of the last operation (observation only)

vars == <<board, currentPlayer, enPassantTarget, gameStatus, capturedPieces,
          movesSinceLastCaptureOrPawn, positionHistory, gameHistory,
          historyIndex, laserPointerCount, boneCount, isLaserPointerActive,
          isBoneActive, promotion, gameSettings, botColor, isBotThinking,
          botTimer, forceTimer, moveCompleted, saved, plies, last>>

----------------------------------------------------------------------------
(* Data model *)

WHITE == "white"
BLACK == "black"
Colors == {WHITE, BLACK}

Rows == 0..7
Cols == 0..7
Pos == Rows \X Cols

null == [type |-> "none", color |-> "none", hasMoved |-> FALSE]

Piece(t, c, m) == [type |-> t, color |-> c, hasMoved |-> m]

NoTarget == [position |-> <<-1, -1>>, capturePosition |-> <<-1, -1>>]

Abs(x) == IF x < 0 THEN -x ELSE x
Min(a, b) == IF a < b THEN a ELSE b
Max(a, b) == IF a < b THEN b ELSE a

Opponent(c) == IF c = WHITE THEN BLACK ELSE WHITE

cloneBoard(b) == b

\* the element of a one-element set: Only({F(x) : x \in {e}}) computes e once
Only(S) == CHOOSE x \in S : TRUE

\* first king of the colour in row-major scan order, <<-1,-1>> when absent
findKingPosition(b, color) ==
    Only({IF ks = {} THEN <<-1, -1>>
          ELSE CHOOSE p \in ks : \A q \in ks : p[1] < q[1] \/ (p[1] = q[1] /\ p[2] <= q[2]) :
          ks \in {{p \in Pos : b[p].type = "king" /\ b[p].color = color}}})

BackRank == <<"rook", "knight", "bishop", "queen", "king", "bishop", "knight", "rook">>

initialBoardState ==
    [p \in Pos |->
        CASE p[1] = 0 -> Piece(BackRank[p[2] + 1], BLACK, FALSE)
          [] p[1] = 1 -> Piece("pawn", BLACK, FALSE)
          [] p[1] = 6 -> Piece("pawn", WHITE, FALSE)
          [] p[1] = 7 -> Piece(BackRank[p[2] + 1], WHITE, FALSE)
          [] OTHER -> null]

----------------------------------------------------------------------------
(* chess-rules: piece movement *)

isValidRookMove(b, from, to) ==
    IF from[1] # to[1] /\ from[2] # to[2] THEN FALSE
    ELSE IF from[1] = to[1]
         THEN \A col \in (Min(from[2], to[2]) + 1)..(Max(from[2], to[2]) - 1) :
                  b[<<from[1], col>>] = null
         ELSE \A row \in (Min(from[1], to[1]) + 1)..(Max(from[1], to[1]) - 1) :
                  b[<<row, from[2]>>] = null

isValidKnightMove(from, to) ==
    LET rowDiff == Abs(from[1] - to[1])
        colDiff == Abs(from[2] - to[2])
    IN (rowDiff = 2 /\ colDiff = 1) \/ (rowDiff = 1 /\ colDiff = 2)

isValidBishopMove(b, from, to) ==
    LET rowDiff == Abs(from[1] - to[1])
        colDiff == Abs(from[2] - to[2])
        rowDirection == IF from[1] < to[1] THEN 1 ELSE -1
        colDirection == IF from[2] < to[2] THEN 1 ELSE -1
    IN IF rowDiff # colDiff THEN FALSE
       ELSE \A i \in 1..(rowDiff - 1) :
                b[<<from[1] + i * rowDirection, from[2] + i * colDirection>>] = null

isValidQueenMove(b, from, to) ==
    isValidRookMove(b, from, to) \/ isValidBishopMove(b, from, to)

isValidKingMove(b, from, to) ==
    Abs(from[1] - to[1]) <= 1 /\ Abs(from[2] - to[2]) <= 1

\* a pawn rule that takes any pending target as leave to capture diagonally
\* onto an empty square
isValidPawnMoveAnyTarget(b, ep, from, to) ==
    LET piece == b[from]
        direction == IF piece.color = WHITE THEN -1 ELSE 1
        startRow == IF piece.color = WHITE THEN 6 ELSE 1
    IN IF piece.type # "pawn" THEN FALSE
       ELSE \/ (from[2] = to[2] /\ from[1] + direction = to[1] /\ b[to] = null)
            \/ (from[2] = to[2] /\ from[1] = startRow
                  /\ from[1] + 2 * direction = to[1]
                  /\ b[<<from[1] + direction, from[2]>>] = null
                  /\ b[to] = null)
            \/ ((from[2] + 1 = to[2] \/ from[2] - 1 = to[2])
                  /\ from[1] + direction = to[1]
                  /\ (b[to] # null \/ ep # NoTarget))

isValidPawnMove(b, ep, from, to) ==
    LET piece == b[from]
        direction == IF piece.color = WHITE THEN -1 ELSE 1
        startRow == IF piece.color = WHITE THEN 6 ELSE 1
    IN IF piece.type # "pawn" THEN FALSE
       ELSE \/ (from[2] = to[2] /\ from[1] + direction = to[1] /\ b[to] = null)
            \/ (from[2] = to[2] /\ from[1] = startRow
                  /\ from[1] + 2 * direction = to[1]
                  /\ b[<<from[1] + direction, from[2]>>] = null
                  /\ b[to] = null)
            \/ ((from[2] + 1 = to[2] \/ from[2] - 1 = to[2])
                  /\ from[1] + direction = to[1]
                  /\ (b[to] # null \/ (ep # NoTarget /\ to = ep.capturePosition)))

\* canPawnAttack that also attacks the square straight ahead
canPawnAttackStraightAhead(piece, from, to) ==
    LET direction == IF piece.color = WHITE THEN -1 ELSE 1
    IN (from[2] + 1 = to[2] \/ from[2] - 1 = to[2] \/ from[2] = to[2])
       /\ from[1] + direction = to[1]

canPawnAttack(piece, from, to) ==
    LET direction == IF piece.color = WHITE THEN -1 ELSE 1
    IN (from[2] + 1 = to[2] \/ from[2] - 1 = to[2]) /\ from[1] + direction = to[1]

canPieceAttack(b, from, to) ==
    LET piece == b[from]
        targetPiece == b[to]
    IN IF piece = null THEN FALSE
       ELSE IF targetPiece # null /\ targetPiece.color = piece.color THEN FALSE
       ELSE CASE piece.type = "pawn" -> canPawnAttack(piece, from, to)
              [] piece.type = "rook" -> isValidRookMove(b, from, to)
              [] piece.type = "knight" -> isValidKnightMove(from, to)
              [] piece.type = "bishop" -> isValidBishopMove(b, from, to)
              [] piece.type = "queen" -> isValidQueenMove(b, from, to)
              [] piece.type = "king" ->
                    Abs(from[1] - to[1]) <= 1 /\ Abs(from[2] - to[2]) <= 1
              [] OTHER -> FALSE

isKingInCheck(b, kingColor) ==
    LET opponentColor == IF kingColor = WHITE THEN BLACK ELSE WHITE
    IN \E kingPosition \in {findKingPosition(b, kingColor)} :
          IF kingPosition = <<-1, -1>> THEN FALSE
          ELSE \E p \in Pos : b[p] # null /\ b[p].color = opponentColor
                                 /\ canPieceAttack(b, p, kingPosition)

----------------------------------------------------------------------------
(* chess-rules: castling, validation, execution *)

\* canCastle testing only the first square the king crosses
canCastleFirstSquareOnly(b, kingPos, rookPos) ==
    LET king == b[kingPos]
        rook == b[rookPos]
        isKingSide == rookPos[2] > kingPos[2]
        start == Min(kingPos[2], rookPos[2]) + 1
        end == Max(kingPos[2], rookPos[2])
        direction == IF isKingSide THEN 1 ELSE -1
        testBoard(step) ==
            LET testCol == kingPos[2] + step * direction
                cleared == [cloneBoard(b) EXCEPT ![kingPos] = null]
            IN \* a write past the row's end is not seen by the 8x8 scans
               IF testCol \in Cols
               THEN [cleared EXCEPT ![<<kingPos[1], testCol>>] = king]
               ELSE cleared
    IN IF king = null \/ rook = null THEN FALSE
       ELSE IF king.type # "king" \/ rook.type # "rook" THEN FALSE
       ELSE IF king.color # rook.color THEN FALSE
       ELSE IF king.hasMoved \/ rook.hasMoved THEN FALSE
       ELSE IF kingPos[1] # rookPos[1] THEN FALSE
       ELSE IF \E col \in start..(end - 1) : b[<<kingPos[1], col>>] # null THEN FALSE
       ELSE IF isKingInCheck(b, king.color) THEN FALSE
       ELSE \A step \in 1..1 : \A tested \in {testBoard(step)} :
                ~isKingInCheck(tested, king.color)

canCastle(b, kingPos, rookPos) ==
    LET king == b[kingPos]
        rook == b[rookPos]
        isKingSide == rookPos[2] > kingPos[2]
        start == Min(kingPos[2], rookPos[2]) + 1
        end == Max(kingPos[2], rookPos[2])
        direction == IF isKingSide THEN 1 ELSE -1
        testBoard(step) ==
            LET testCol == kingPos[2] + step * direction
                cleared == [cloneBoard(b) EXCEPT ![kingPos] = null]
            IN \* a write past the row's end is not seen by the 8x8 scans
               IF testCol \in Cols
               THEN [cleared EXCEPT ![<<kingPos[1], testCol>>] = king]
               ELSE cleared
    IN IF king = null \/ rook = null THEN FALSE
       ELSE IF king.type # "king" \/ rook.type # "rook" THEN FALSE
       ELSE IF king.color # rook.color THEN FALSE
       ELSE IF king.hasMoved \/ rook.hasMoved THEN FALSE
       ELSE IF kingPos[1] # rookPos[1] THEN FALSE
       ELSE IF \E col \in start..(end - 1) : b[<<kingPos[1], col>>] # null THEN FALSE
       ELSE IF isKingInCheck(b, king.color) THEN FALSE
       ELSE \A step \in 1..2 : \A tested \in {testBoard(step)} :
                ~isKingInCheck(tested, king.color)

\* the board on which isValidMove tests the mover's king
scratchBoard(b, ep, from, to) ==
    LET piece == b[from]
        newBoard == cloneBoard(b)
        afterEp == IF piece.type = "pawn" /\ ep # NoTarget /\ to = ep.capturePosition
                   THEN [newBoard EXCEPT ![ep.position] = null]
                   ELSE newBoard
    IN [afterEp EXCEPT ![to] = afterEp[from], ![from] = null]

isValidMove(b, ep, from, to, player) ==
    LET piece == b[from]
        targetPiece == b[to]
        validPieceMove ==
            CASE piece.type = "pawn" -> isValidPawnMove(b, ep, from, to)
              [] piece.type = "rook" -> isValidRookMove(b, from, to)
              [] piece.type = "knight" -> isValidKnightMove(from, to)
              [] piece.type = "bishop" -> isValidBishopMove(b, from, to)
              [] piece.type = "queen" -> isValidQueenMove(b, from, to)
              [] piece.type = "king" -> isValidKingMove(b, from, to)
              [] OTHER -> FALSE
    IN IF from = to THEN FALSE
       ELSE IF piece = null \/ piece.color # player THEN FALSE
       ELSE IF targetPiece # null /\ targetPiece.color = piece.color
            THEN IF piece.type = "king" /\ targetPiece.type = "rook"
                 THEN canCastle(b, from, to)
                 ELSE FALSE
       ELSE IF ~validPieceMove THEN FALSE
       ELSE \A newBoard \in {scratchBoard(b, ep, from, to)} :
                ~isKingInCheck(newBoard, piece.color)

\* a bookkeeping that sets the target after any pawn advance
trackEnPassantAnyAdvance(piece, from, to) ==
    IF piece.type = "pawn" /\ Abs(from[1] - to[1]) >= 1
    THEN [position |-> to,
          capturePosition |-> <<(from[1] + to[1]) \div 2, to[2]>>]
    ELSE NoTarget

\* the en-passant bookkeeping of an ordinary move: set after a pawn's
\* two-row change, cleared otherwise
trackEnPassant(piece, from, to) ==
    IF piece.type = "pawn" /\ Abs(from[1] - to[1]) = 2
    THEN [position |-> to,
          capturePosition |-> <<(from[1] + to[1]) \div 2, to[2]>>]
    ELSE NoTarget

\* makeMove leaving the en-passant target in place when it castles
makeMoveCastlingKeepsTarget(b, ep, from, to) ==
    LET newBoard == cloneBoard(b)
        piece == newBoard[from]
        target == newBoard[to]
        isKingSide == to[2] > from[2]
        newKingCol == IF isKingSide THEN 6 ELSE 2
        newRookCol == IF isKingSide THEN 5 ELSE 3
        castled == [[[[newBoard EXCEPT ![from] = null]
                                EXCEPT ![to] = null]
                                EXCEPT ![<<from[1], newKingCol>>] = [piece EXCEPT !.hasMoved = TRUE]]
                                EXCEPT ![<<from[1], newRookCol>>] = Piece("rook", piece.color, TRUE)]
        isEnPassant == piece.type = "pawn" /\ ep # NoTarget /\ to = ep.capturePosition
        afterEp == IF isEnPassant THEN [newBoard EXCEPT ![ep.position] = null] ELSE newBoard
        capturedPiece == IF isEnPassant THEN newBoard[ep.position] ELSE target
        newTarget == trackEnPassant(piece, from, to)
        moved == IF piece.type \in {"pawn", "king", "rook"}
                 THEN [piece EXCEPT !.hasMoved = TRUE] ELSE piece
        isPromotion == piece.type = "pawn" /\ (to[1] = 0 \/ to[1] = 7)
    IN IF piece = null
       THEN [newBoard |-> newBoard, capturedPiece |-> null, isCastling |-> FALSE,
             isEnPassant |-> FALSE, isPromotion |-> FALSE,
             promotionPosition |-> <<-1, -1>>, enPassantTarget |-> ep]
       ELSE IF piece.type = "king" /\ target # null /\ target.type = "rook"
               /\ target.color = piece.color
       THEN [newBoard |-> castled, capturedPiece |-> null, isCastling |-> TRUE,
             isEnPassant |-> FALSE, isPromotion |-> FALSE,
             promotionPosition |-> <<-1, -1>>, enPassantTarget |-> ep]
       ELSE [newBoard |-> [afterEp EXCEPT ![to] = moved, ![from] = null],
             capturedPiece |-> capturedPiece, isCastling |-> FALSE,
             isEnPassant |-> isEnPassant, isPromotion |-> isPromotion,
             promotionPosition |-> IF isPromotion THEN to ELSE <<-1, -1>>,
             enPassantTarget |-> newTarget]

\* makeMove setting hasMoved on pawns only
makeMoveMarksPawnsOnly(b, ep, from, to) ==
    LET newBoard == cloneBoard(b)
        piece == newBoard[from]
        target == newBoard[to]
        isKingSide == to[2] > from[2]
        newKingCol == IF isKingSide THEN 6 ELSE 2
        newRookCol == IF isKingSide THEN 5 ELSE 3
        castled == [[[[newBoard EXCEPT ![from] = null]
                                EXCEPT ![to] = null]
                                EXCEPT ![<<from[1], newKingCol>>] = [piece EXCEPT !.hasMoved = TRUE]]
                                EXCEPT ![<<from[1], newRookCol>>] = Piece("rook", piece.color, TRUE)]
        isEnPassant == piece.type = "pawn" /\ ep # NoTarget /\ to = ep.capturePosition
        afterEp == IF isEnPassant THEN [newBoard EXCEPT ![ep.position] = null] ELSE newBoard
        capturedPiece == IF isEnPassant THEN newBoard[ep.position] ELSE target
        newTarget == trackEnPassant(piece, from, to)
        moved == IF piece.type \in {"pawn"}
                 THEN [piece EXCEPT !.hasMoved = TRUE] ELSE piece
        isPromotion == piece.type = "pawn" /\ (to[1] = 0 \/ to[1] = 7)
    IN IF piece = null
       THEN [newBoard |-> newBoard, capturedPiece |-> null, isCastling |-> FALSE,
             isEnPassant |-> FALSE, isPromotion |-> FALSE,
             promotionPosition |-> <<-1, -1>>, enPassantTarget |-> ep]
       ELSE IF piece.type = "king" /\ target # null /\ target.type = "rook"
               /\ target.color = piece.color
       THEN [newBoard |-> castled, capturedPiece |-> null, isCastling |-> TRUE,
             isEnPassant |-> FALSE, isPromotion |-> FALSE,
             promotionPosition |-> <<-1, -1>>, enPassantTarget |-> NoTarget]
       ELSE [newBoard |-> [afterEp EXCEPT ![to] = moved, ![from] = null],
             capturedPiece |-> capturedPiece, isCastling |-> FALSE,
             isEnPassant |-> isEnPassant, isPromotion |-> isPromotion,
             promotionPosition |-> IF isPromotion THEN to ELSE <<-1, -1>>,
             enPassantTarget |-> newTarget]

\* MoveResult, together with the en-passant target the call leaves behind
makeMove(b, ep, from, to) ==
    LET newBoard == cloneBoard(b)
        piece == newBoard[from]
        target == newBoard[to]
        isKingSide == to[2] > from[2]
        newKingCol == IF isKingSide THEN 6 ELSE 2
        newRookCol == IF isKingSide THEN 5 ELSE 3
        castled == [[[[newBoard EXCEPT ![from] = null]
                                EXCEPT ![to] = null]
                                EXCEPT ![<<from[1], newKingCol>>] = [piece EXCEPT !.hasMoved = TRUE]]
                                EXCEPT ![<<from[1], newRookCol>>] = Piece("rook", piece.color, TRUE)]
        isEnPassant == piece.type = "pawn" /\ ep # NoTarget /\ to = ep.capturePosition
        afterEp == IF isEnPassant THEN [newBoard EXCEPT ![ep.position] = null] ELSE newBoard
        capturedPiece == IF isEnPassant THEN newBoard[ep.position] ELSE target
        newTarget == trackEnPassant(piece, from, to)
        moved == IF piece.type \in {"pawn", "king", "rook"}
                 THEN [piece EXCEPT !.hasMoved = TRUE] ELSE piece
        isPromotion == piece.type = "pawn" /\ (to[1] = 0 \/ to[1] = 7)
    IN IF piece = null
       THEN [newBoard |-> newBoard, capturedPiece |-> null, isCastling |-> FALSE,
             isEnPassant |-> FALSE, isPromotion |-> FALSE,
             promotionPosition |-> <<-1, -1>>, enPassantTarget |-> ep]
       ELSE IF piece.type = "king" /\ target # null /\ target.type = "rook"
               /\ target.color = piece.color
       THEN [newBoard |-> castled, capturedPiece |-> null, isCastling |-> TRUE,
             isEnPassant |-> FALSE, isPromotion |-> FALSE,
             promotionPosition |-> <<-1, -1>>, enPassantTarget |-> NoTarget]
       ELSE [newBoard |-> [afterEp EXCEPT ![to] = moved, ![from] = null],
             capturedPiece |-> capturedPiece, isCastling |-> FALSE,
             isEnPassant |-> isEnPassant, isPromotion |-> isPromotion,
             promotionPosition |-> IF isPromotion THEN to ELSE <<-1, -1>>,
             enPassantTarget |-> newTarget]

\* promotePawn leaving hasMoved as it was
promotePawnKeepsHasMoved(b, position, promotionType) ==
    LET newBoard == cloneBoard(b)
        piece == newBoard[position]
    IN IF piece # null
       THEN [newBoard EXCEPT ![position] = Piece(promotionType, piece.color, piece.hasMoved)]
       ELSE newBoard

promotePawn(b, position, promotionType) ==
    LET newBoard == cloneBoard(b)
        piece == newBoard[position]
    IN IF piece # null
       THEN [newBoard EXCEPT ![position] = Piece(promotionType, piece.color, TRUE)]
       ELSE newBoard

\* hasLegalMoves looking at the king's moves only
hasLegalMovesKingOnly(b, ep, color) ==
    \E from \in Pos : b[from] # null /\ b[from].color = color /\ b[from].type = "king"
        /\ \E to \in Pos : isValidMove(b, ep, from, to, color)

hasLegalMoves(b, ep, color) ==
    \E from \in Pos : b[from] # null /\ b[from].color = color
        /\ \E to \in Pos : isValidMove(b, ep, from, to, color)

isCheck(b, color) == isKingInCheck(b, color)

isCheckmate(b, ep, color) ==
    IF ~isKingInCheck(b, color) THEN FALSE ELSE ~hasLegalMoves(b, ep, color)

isStalemate(b, ep, color) ==
    IF isKingInCheck(b, color) THEN FALSE ELSE ~hasLegalMoves(b, ep, color)

\* hasInsufficientMaterial not comparing the bishops' squares
hasInsufficientMaterialAnyBishops(b) ==
    \E whitePieces \in {{p \in Pos : b[p] # null /\ b[p].color = WHITE}},
       blackPieces \in {{p \in Pos : b[p] # null /\ b[p].color # WHITE}} :
    LET \* Array.find: the first non-king piece in scan order decides
        first(S) == CHOOSE p \in S : \A q \in S : p[1] < q[1] \/ (p[1] = q[1] /\ p[2] <= q[2])
        \* the position scan keeps the last bishop of each colour
        lastOf(S) == CHOOSE p \in S : \A q \in S : q[1] < p[1] \/ (q[1] = p[1] /\ q[2] <= p[2])
        minorOnly(S) == LET nk == {p \in S : b[p].type # "king"}
                        IN nk # {} /\ b[first(nk)].type \in {"bishop", "knight"}
        wb == {p \in whitePieces : b[p].type = "bishop"}
        bb == {p \in blackPieces : b[p].type = "bishop"}
    IN \/ (Cardinality(whitePieces) = 1 /\ Cardinality(blackPieces) = 1)
       \/ (Cardinality(whitePieces) = 1 /\ Cardinality(blackPieces) = 2 /\ minorOnly(blackPieces))
       \/ (Cardinality(blackPieces) = 1 /\ Cardinality(whitePieces) = 2 /\ minorOnly(whitePieces))
       \/ (Cardinality(whitePieces) = 2 /\ Cardinality(blackPieces) = 2
             /\ wb # {} /\ bb # {}
             /\ lastOf(wb) \in Pos /\ lastOf(bb) \in Pos)

hasInsufficientMaterial(b) ==
    \E whitePieces \in {{p \in Pos : b[p] # null /\ b[p].color = WHITE}},
       blackPieces \in {{p \in Pos : b[p] # null /\ b[p].color # WHITE}} :
    LET \* Array.find: the first non-king piece in scan order decides
        first(S) == CHOOSE p \in S : \A q \in S : p[1] < q[1] \/ (p[1] = q[1] /\ p[2] <= q[2])
        \* the position scan keeps the last bishop of each colour
        lastOf(S) == CHOOSE p \in S : \A q \in S : q[1] < p[1] \/ (q[1] = p[1] /\ q[2] <= p[2])
        minorOnly(S) == LET nk == {p \in S : b[p].type # "king"}
                        IN nk # {} /\ b[first(nk)].type \in {"bishop", "knight"}
        wb == {p \in whitePieces : b[p].type = "bishop"}
        bb == {p \in blackPieces : b[p].type = "bishop"}
    IN \/ (Cardinality(whitePieces) = 1 /\ Cardinality(blackPieces) = 1)
       \/ (Cardinality(whitePieces) = 1 /\ Cardinality(blackPieces) = 2 /\ minorOnly(blackPieces))
       \/ (Cardinality(blackPieces) = 1 /\ Cardinality(whitePieces) = 2 /\ minorOnly(whitePieces))
       \/ (Cardinality(whitePieces) = 2 /\ Cardinality(blackPieces) = 2
             /\ wb # {} /\ bb # {}
             /\ (lastOf(wb)[1] + lastOf(wb)[2]) % 2 = (lastOf(bb)[1] + lastOf(bb)[2]) % 2)

\* the signature of one square: side letter and first letter of the type
squareCode(piece) ==
    IF piece = null THEN <<".">>
    ELSE <<IF piece.color = WHITE THEN "W" ELSE "B",
           CASE piece.type = "pawn" -> "P" [] piece.type = "rook" -> "R"
             [] piece.type = "knight" -> "K" [] piece.type = "bishop" -> "B"
             [] piece.type = "queen" -> "Q" [] piece.type = "king" -> "K">>

boardToString(b) == [p \in Pos |-> squareCode(b[p])]

\* checkThreefoldRepetition satisfied by two occurrences
checkTwofoldRepetition(history) ==
    IF Len(history) < 5 THEN FALSE
    ELSE Cardinality({i \in 1..Len(history) : history[i] = history[Len(history)]}) >= 2

checkThreefoldRepetition(history) ==
    IF Len(history) < 5 THEN FALSE
    ELSE Cardinality({i \in 1..Len(history) : history[i] = history[Len(history)]}) >= 3

----------------------------------------------------------------------------
(* chess-bot: evaluation and move choice.  Scores are kept multiplied by   *)
(* ScoreScale so that the halves and quarters of the personality bonuses   *)
(* stay integers.                                                          *)

ScoreScale == 4

PIECE_VALUES ==
    [pawn |-> 100, knight |-> 320, bishop |-> 330, rook |-> 500,
     queen |-> 900, king |-> 20000]

PAWN_POSITION_BONUS ==
    << <<0, 0, 0, 0, 0, 0, 0, 0>>,
       <<50, 50, 50, 50, 50, 50, 50, 50>>,
       <<10, 10, 20, 30, 30, 20, 10, 10>>,
       <<5, 5, 10, 25, 25, 10, 5, 5>>,
       <<0, 0, 0, 20, 20, 0, 0, 0>>,
       <<5, -5, -10, 0, 0, -10, -5, 5>>,
       <<5, 10, 10, -20, -20, 10, 10, 5>>,
       <<0, 0, 0, 0, 0, 0, 0, 0>> >>

KNIGHT_POSITION_BONUS ==
    << <<-50, -40, -30, -30, -30, -30, -40, -50>>,
       <<-40, -20, 0, 0, 0, 0, -20, -40>>,
       <<-30, 0, 10, 15, 15, 10, 0, -30>>,
       <<-30, 5, 15, 20, 20, 15, 5, -30>>,
       <<-30, 0, 15, 20, 20, 15, 0, -30>>,
       <<-30, 5, 10, 15, 15, 10, 5, -30>>,
       <<-40, -20, 0, 5, 5, 0, -20, -40>>,
       <<-50, -40, -30, -30, -30, -30, -40, -50>> >>

BISHOP_POSITION_BONUS ==
    << <<-20, -10, -10, -10, -10, -10, -10, -20>>,
       <<-10, 0, 0, 0, 0, 0, 0, -10>>,
       <<-10, 0, 5, 10, 10, 5, 0, -10>>,
       <<-10, 5, 5, 10, 10, 5, 5, -10>>,
       <<-10, 0, 10, 10, 10, 10, 0, -10>>,
       <<-10, 10, 10, 10, 10, 10, 10, -10>>,
       <<-10, 5, 0, 0, 0, 0, 5, -10>>,
       <<-20, -10, -10, -10, -10, -10, -10, -20>> >>

KING_POSITION_BONUS ==
    << <<-30, -40, -40, -50, -50, -40, -40, -30>>,
       <<-30, -40, -40, -50, -50, -40, -40, -30>>,
       <<-30, -40, -40, -50, -50, -40, -40, -30>>,
       <<-30, -40, -40, -50, -50, -40, -40, -30>>,
       <<-20, -30, -30, -40, -40, -30, -30, -20>>,
       <<-10, -20, -20, -20, -20, -20, -20, -10>>,
       <<20, 20, 0, 0, 0, 0, 20, 20>>,
       <<20, 30, 10, 0, 0, 10, 30, 20>> >>

getPositionBonus(piece, position) ==
    LET row == IF piece.color = WHITE THEN position[1] ELSE 7 - position[1]
    IN CASE piece.type = "pawn" -> PAWN_POSITION_BONUS[row + 1][position[2] + 1]
         [] piece.type = "knight" -> KNIGHT_POSITION_BONUS[row + 1][position[2] + 1]
         [] piece.type = "bishop" -> BISHOP_POSITION_BONUS[row + 1][position[2] + 1]
         [] piece.type = "king" -> KING_POSITION_BONUS[row + 1][position[2] + 1]
         [] OTHER -> 0

\* squares are numbered row by row, as the nested loops visit them
SquareOf(i) == <<i \div 8, i % 8>>

pieceScoreAt(b, color, p) ==
    LET piece == b[p]
        pieceScore == PIECE_VALUES[piece.type] + getPositionBonus(piece, p)
    IN IF piece = null THEN 0
       ELSE IF piece.color = color THEN pieceScore ELSE -pieceScore

rowScore(b, color, row) ==
    pieceScoreAt(b, color, <<row, 0>>) + pieceScoreAt(b, color, <<row, 1>>)
    + pieceScoreAt(b, color, <<row, 2>>) + pieceScoreAt(b, color, <<row, 3>>)
    + pieceScoreAt(b, color, <<row, 4>>) + pieceScoreAt(b, color, <<row, 5>>)
    + pieceScoreAt(b, color, <<row, 6>>) + pieceScoreAt(b, color, <<row, 7>>)

evaluateBoard(b, color) ==
    rowScore(b, color, 0) + rowScore(b, color, 1) + rowScore(b, color, 2)
    + rowScore(b, color, 3) + rowScore(b, color, 4) + rowScore(b, color, 5)
    + rowScore(b, color, 6) + rowScore(b, color, 7)

\* a move is the number ((fromRow*8 + fromCol)*8 + toRow)*8 + toCol, so that
\* ascending numbers are the order in which getAllValidMoves pushes them
MoveFrom(k) == SquareOf(k \div 64)
MoveTo(k) == SquareOf(k % 64)
MoveKey(from, to) == (from[1] * 8 + from[2]) * 64 + to[1] * 8 + to[2]

\* a scan of the destinations that stops one row short
getAllValidMovesShortScan(b, ep, color) ==
    {MoveKey(from, to) : <<from, to>> \in
        {ft \in {p \in Pos : b[p] # null /\ b[p].color = color}
                   \X {t \in Pos : t[1] < 7} :
            isValidMove(b, ep, ft[1], ft[2], color)}}

getAllValidMoves(b, ep, color) ==
    {MoveKey(from, to) : <<from, to>> \in
        {ft \in {p \in Pos : b[p] # null /\ b[p].color = color} \X Pos :
            isValidMove(b, ep, ft[1], ft[2], color)}}

\* evaluateMove runs makeMove, which overwrites the shared en-passant target;
\* ep is the target in force when this move is evaluated
evaluateMove(b, ep, k, color) ==
    LET opponentColor == IF color = WHITE THEN BLACK ELSE WHITE
    IN Only({ScoreScale * evaluateBoard(result.newBoard, color)
             + (IF result.capturedPiece # null
                THEN (ScoreScale * PIECE_VALUES[result.capturedPiece.type]) \div 2 ELSE 0)
             + (IF isCheckmate(result.newBoard, result.enPassantTarget, opponentColor)
                THEN ScoreScale * 100000 ELSE 0) :
             result \in {makeMove(b, ep, MoveFrom(k), MoveTo(k))}})

getDefensiveBonus(b, k) ==
    LET piece == b[MoveFrom(k)]
        to == MoveTo(k)
        near(type) == Cardinality({p \in Pos : b[p] # null /\ b[p].color = piece.color
                                     /\ b[p].type = type
                                     /\ Abs(to[1] - p[1]) + Abs(to[2] - p[2]) <= 2})
        bonus(type) == near(type) * ((ScoreScale * PIECE_VALUES[type]) \div 20)
    IN IF piece = null THEN 0
       ELSE bonus("pawn") + bonus("knight") + bonus("bishop") + bonus("rook")
            + bonus("queen") + bonus("king")

moveScore(b, ep, k, color, personality) ==
    LET baseScore == evaluateMove(b, ep, k, color)
        targetPiece == b[MoveTo(k)]
    IN baseScore
       + (CASE personality = "aggressive" ->
                 (IF targetPiece # null THEN ScoreScale * 150 ELSE 0)
                 - getDefensiveBonus(b, k) \div 2
            [] personality = "defensive" ->
                 (getDefensiveBonus(b, k) * 3) \div 2
                 - (IF targetPiece # null THEN ScoreScale * 50 ELSE 0)
            [] OTHER -> 0)

\* the en-passant target in force when move k of the list is evaluated: the
\* one the evaluation of the move before it left behind
targetBefore(b, ep, moves, k) ==
    LET earlier == {j \in moves : j < k}
        prev == CHOOSE j \in earlier : \A i \in earlier : i <= j
    IN IF earlier = {} THEN ep
       ELSE makeMove(b, NoTarget, MoveFrom(prev), MoveTo(prev)).enPassantTarget

\* the scored move list as <<move, score>> pairs
scoreMoves(b, ep, moves, color, personality) ==
    {<<k, moveScore(b, targetBefore(b, ep, moves, k), k, color, personality)>> :
        k \in moves}

\* the sort putting, among equal scores, the move generated last first
sortedIndexLatestFirst(scored, m) ==
    Cardinality({o \in scored :
        o[2] > m[2] \/ (o[2] = m[2] /\ o[1] > m[1])})

\* position of an entry after the stable descending sort
sortedIndex(scored, m) ==
    Cardinality({o \in scored :
        o[2] > m[2] \/ (o[2] = m[2] /\ o[1] < m[1])})

\* how many of the best moves the difficulty lets Math.random() choose from
topChoices(difficulty, n) ==
    CASE difficulty = "easy" -> IF n > 5 THEN 5 ELSE 1
      [] difficulty = "medium" -> IF n > 3 THEN 3 ELSE 1
      [] OTHER -> 1

\* the moves calculateBotMove may return ({} stands for null) and the
\* en-passant target its evaluation leaves behind
calculateBotMove(b, ep, color, difficulty, personality) ==
    Only({IF moves = {}
          THEN [moves |-> {}, enPassantTarget |-> ep]
          ELSE Only({[moves |-> {m[1] : m \in {o \in scored :
                                   sortedIndex(scored, o)
                                       < topChoices(difficulty, Cardinality(moves))}},
                      enPassantTarget |->
                          makeMove(b, NoTarget, MoveFrom(lastMove),
                                   MoveTo(lastMove)).enPassantTarget] :
                     scored \in {scoreMoves(b, ep, moves, color, personality)},
                     lastMove \in {k \in moves : \A j \in moves : j <= k}}) :
          moves \in {getAllValidMoves(b, ep, color)}})

----------------------------------------------------------------------------
(* chess-logic: the second rules implementation, used by the forced        *)
(* fallback.  Its boards hold {type, player, hasMoved}.                    *)

convertToLogicBoard(b) ==
    [p \in Pos |->
        IF b[p] = null THEN null
        ELSE [type |-> b[p].type,
              color |-> IF b[p].color = WHITE THEN "dogs" ELSE "cats",
              hasMoved |-> b[p].hasMoved]]

isInBounds(row, col) == row >= 0 /\ row < 8 /\ col >= 0 /\ col < 8

getPawnMoves(lb, from, piece) ==
    LET direction == IF piece.color = "dogs" THEN -1 ELSE 1
        startRow == IF piece.color = "dogs" THEN 6 ELSE 1
        oneForward == from[1] + direction
        twoForward == from[1] + 2 * direction
        forward ==
            IF isInBounds(oneForward, from[2]) /\ lb[<<oneForward, from[2]>>] = null
            THEN {<<oneForward, from[2]>>}
                 \cup (IF from[1] = startRow /\ lb[<<twoForward, from[2]>>] = null
                       THEN {<<twoForward, from[2]>>} ELSE {})
            ELSE {}
        captures == {<<from[1] + direction, from[2] - 1>>, <<from[1] + direction, from[2] + 1>>}
    IN forward \cup {cap \in captures : isInBounds(cap[1], cap[2])
                        /\ lb[cap] # null /\ lb[cap].color # piece.color}

\* squares reached by sliding from `from` along the directions, stopping at
\* the first piece (included when it is the other player's)
slideMoves(lb, from, piece, directions) ==
    {<<from[1] + dn[2] * dn[1][1], from[2] + dn[2] * dn[1][2]>> : dn \in
        {m \in directions \X (1..7) :
            /\ isInBounds(from[1] + m[2] * m[1][1], from[2] + m[2] * m[1][2])
            /\ \A i \in 1..(m[2] - 1) :
                   lb[<<from[1] + i * m[1][1], from[2] + i * m[1][2]>>] = null
            /\ \A to \in {<<from[1] + m[2] * m[1][1], from[2] + m[2] * m[1][2]>>} :
                   lb[to] = null \/ lb[to].color # piece.color}}

getRookMoves(lb, from, piece) ==
    slideMoves(lb, from, piece, {<<1, 0>>, <<-1, 0>>, <<0, 1>>, <<0, -1>>})

getBishopMoves(lb, from, piece) ==
    slideMoves(lb, from, piece, {<<1, 1>>, <<1, -1>>, <<-1, 1>>, <<-1, -1>>})

getQueenMoves(lb, from, piece) ==
    getRookMoves(lb, from, piece) \cup getBishopMoves(lb, from, piece)

\* stepMoves not looking at what stands on the destination
stepMovesOntoOwnPieces(lb, from, piece, offsets) ==
    {<<from[1] + o[1], from[2] + o[2]>> : o \in
        {m \in offsets :
            /\ isInBounds(from[1] + m[1], from[2] + m[2])
            /\ \A to \in {<<from[1] + m[1], from[2] + m[2]>>} :
                   lb[to] = null \/ lb[to].color \in {"cats", "dogs"}}}

stepMoves(lb, from, piece, offsets) ==
    {<<from[1] + o[1], from[2] + o[2]>> : o \in
        {m \in offsets :
            /\ isInBounds(from[1] + m[1], from[2] + m[2])
            /\ \A to \in {<<from[1] + m[1], from[2] + m[2]>>} :
                   lb[to] = null \/ lb[to].color # piece.color}}

getKnightMoves(lb, from, piece) ==
    stepMoves(lb, from, piece,
              {<<-2, -1>>, <<-2, 1>>, <<-1, -2>>, <<-1, 2>>,
               <<1, -2>>, <<1, 2>>, <<2, -1>>, <<2, 1>>})

getKingMoves(lb, from, piece) ==
    stepMoves(lb, from, piece,
              {<<-1, -1>>, <<-1, 0>>, <<-1, 1>>, <<0, -1>>,
               <<0, 1>>, <<1, -1>>, <<1, 0>>, <<1, 1>>})

getValidMoves(lb, from) ==
    LET piece == lb[from]
    IN IF piece = null THEN {}
       ELSE CASE piece.type = "pawn" -> getPawnMoves(lb, from, piece)
              [] piece.type = "rook" -> getRookMoves(lb, from, piece)
              [] piece.type = "knight" -> getKnightMoves(lb, from, piece)
              [] piece.type = "bishop" -> getBishopMoves(lb, from, piece)
              [] piece.type = "queen" -> getQueenMoves(lb, from, piece)
              [] piece.type = "king" -> getKingMoves(lb, from, piece)
              [] OTHER -> {}

logicMakeMove(lb, from, to) ==
    LET piece == lb[from]
    IN IF piece = null THEN lb
       ELSE [lb EXCEPT
               ![to] = IF piece.type = "pawn"
                          /\ ((piece.color = "dogs" /\ to[1] = 0)
                              \/ (piece.color = "cats" /\ to[1] = 7))
                       THEN [type |-> "queen", color |-> piece.color, hasMoved |-> TRUE]
                       ELSE [piece EXCEPT !.hasMoved = TRUE],
               ![from] = null]

isInCheck(lb, player) ==
    \E ks \in {{p \in Pos : lb[p] # null /\ lb[p].type = "king" /\ lb[p].color = player}} :
        /\ ks # {}
        /\ \E kingPos \in {p \in ks : \A q \in ks :
                                p[1] < q[1] \/ (p[1] = q[1] /\ p[2] <= q[2])} :
              \E p \in Pos : lb[p] # null /\ lb[p].color # player
                               /\ kingPos \in getValidMoves(lb, p)

getAllLegalMoves(lb, player) ==
    UNION {{MoveKey(from, to) : to \in
              {t \in getValidMoves(lb, from) :
                  \A newBoard \in {logicMakeMove(lb, from, t)} :
                      ~isInCheck(newBoard, player)}} :
           from \in {p \in Pos : lb[p] # null /\ lb[p].color = player}}

----------------------------------------------------------------------------
(* lib/special-abilities *)

isValidPosition(p) == p \in Pos

\* the pieces of the colour nearest to the target (squared distance); the
\* set is empty when the colour has no piece
findClosestPiece(b, target, color) ==
    LET own == {p \in Pos : b[p] # null /\ b[p].color = color}
        d(p) == (p[1] - target[1]) * (p[1] - target[1])
                + (p[2] - target[2]) * (p[2] - target[2])
    IN {p \in own : \A q \in own : d(p) <= d(q)}

----------------------------------------------------------------------------
(* ChessGame: bounds of the exploration *)

MaxPlies == 5

\* calls of makeMove in the rules-only exploration, plies of the rules-only game
MaxCalls == 1
MaxGamePlies == 6

\* files the rules-only game is played on
GameCols == {3, 4}

\* files on which the human players click, and squares they aim abilities
\* at: squares held by the side that uses the ability, so that the piece
\* brought there always comes from another square
ClickCols == {3, 4}
ClickSquares == {p \in Pos : p[2] \in ClickCols}
LaserTargets == {<<7, 4>>, <<6, 4>>}
BoneTargets == {<<0, 4>>, <<1, 4>>}

DefaultSettings ==
    [gameMode |-> "pvbot", crazyMode |-> FALSE, playerColor |-> "black",
     botDifficulty |-> "medium", botPersonality |-> "balanced",
     specialAbilityCount |-> 3]

\* the settings the dialog is submitted with
SettingsChoices ==
    {[gameMode |-> "pvp", crazyMode |-> TRUE, playerColor |-> "none",
      botDifficulty |-> "none", botPersonality |-> "none", specialAbilityCount |-> 1],
     [gameMode |-> "pvbot", crazyMode |-> FALSE, playerColor |-> "white",
      botDifficulty |-> "hard", botPersonality |-> "balanced", specialAbilityCount |-> 0]}

----------------------------------------------------------------------------
(* ChessGame: state *)

NoPromotion ==
    [show |-> FALSE, position |-> <<-1, -1>>, color |-> WHITE,
     pendingBoard |-> <<>>, pendingMove |-> <<>>]

NoClosure == <<>>
NoTimer == [pending |-> FALSE, closure |-> NoClosure]
NoSave == [present |-> FALSE]


\* the component's state as one record
Cur ==
    [board |-> board, currentPlayer |-> currentPlayer,
     enPassantTarget |-> enPassantTarget, gameStatus |-> gameStatus,
     capturedPieces |-> capturedPieces,
     movesSinceLastCaptureOrPawn |-> movesSinceLastCaptureOrPawn,
     positionHistory |-> positionHistory, gameHistory |-> gameHistory,
     historyIndex |-> historyIndex, laserPointerCount |-> laserPointerCount,
     boneCount |-> boneCount, isLaserPointerActive |-> isLaserPointerActive,
     isBoneActive |-> isBoneActive, promotion |-> promotion,
     gameSettings |-> gameSettings, botColor |-> botColor,
     isBotThinking |-> isBotThinking, botTimer |-> botTimer,
     forceTimer |-> forceTimer, moveCompleted |-> moveCompleted, saved |-> saved]

isGameOver(status) ==
    status \in {"checkmate-white", "checkmate-black", "stalemate",
                "draw-insufficient", "draw-50moves", "draw-repetition"}

\* the game-status effect
statusEffect(s) ==
    IF s.promotion.show THEN s.gameStatus
    ELSE IF isCheckmate(s.board, s.enPassantTarget, s.currentPlayer)
         THEN IF s.currentPlayer = WHITE THEN "checkmate-black" ELSE "checkmate-white"
    ELSE IF isStalemate(s.board, s.enPassantTarget, s.currentPlayer) THEN "stalemate"
    ELSE IF hasInsufficientMaterial(s.board) THEN "draw-insufficient"
    ELSE IF s.movesSinceLastCaptureOrPawn >= 100 THEN "draw-50moves"
    ELSE IF checkThreefoldRepetition(s.positionHistory) THEN "draw-repetition"
    ELSE IF isCheck(s.board, s.currentPlayer)
         THEN IF s.currentPlayer = WHITE THEN "check-white" ELSE "check-black"
    ELSE "ongoing"

\* what the callbacks created by a render see of it: the board, the settings
\* and the values saveGameState was built from
renderClosure(s) ==
    [board |-> s.board, currentPlayer |-> s.currentPlayer,
     capturedPieces |-> s.capturedPieces,
     movesSinceLastCaptureOrPawn |-> s.movesSinceLastCaptureOrPawn,
     positionHistory |-> s.positionHistory, gameHistory |-> s.gameHistory,
     historyIndex |-> s.historyIndex, laserPointerCount |-> s.laserPointerCount,
     boneCount |-> s.boneCount, gameSettings |-> s.gameSettings,
     botColor |-> s.botColor]

\* saveGameState as built by the render c, called when the shared target is ep
saveGameState(c, ep) ==
    LET state == [board |-> c.board, currentPlayer |-> c.currentPlayer,
                  capturedPieces |-> c.capturedPieces,
                  laserPointerCount |-> c.laserPointerCount,
                  boneCount |-> c.boneCount, enPassantTarget |-> ep,
                  movesSinceLastCaptureOrPawn |-> c.movesSinceLastCaptureOrPawn,
                  positionHistory |-> c.positionHistory]
        newHistory == Append(SubSeq(c.gameHistory, 1,
                                    Min(c.historyIndex + 1, Len(c.gameHistory))), state)
    IN [gameHistory |-> newHistory, historyIndex |-> Len(newHistory) - 1]

\* the bot-move effect without its test of isBotThinkingRef
botEffectRunsWhileThinking(s, status) ==
    /\ s.gameSettings.gameMode = "pvbot"
    /\ s.botColor = s.currentPlayer
    /\ ~isGameOver(status)
    /\ ~s.promotion.show

\* the bot-move effect: it runs on the render that follows a state change,
\* where gameStatus still has the value `before`, and again once the status
\* effect has changed gameStatus
botEffectRuns(s, status) ==
    /\ s.gameSettings.gameMode = "pvbot"
    /\ s.botColor = s.currentPlayer
    /\ ~isGameOver(status)
    /\ ~s.isBotThinking
    /\ ~s.promotion.show

\* the dependencies of the bot-move effect (saveGameState's own included)
effectDeps(s) ==
    <<s.board, s.currentPlayer, s.gameSettings.gameMode, s.botColor, s.gameStatus,
      s.promotion.show, s.capturedPieces, s.laserPointerCount, s.boneCount,
      s.gameHistory, s.historyIndex, s.movesSinceLastCaptureOrPawn,
      s.positionHistory>>

\* the operations that store a new board array, which alone re-runs the effect
setsBoard(kind) ==
    kind \in {"move", "promote", "laser", "bone", "undo", "redo", "bot", "force",
              "new", "load"}

\* s is the state the handler leaves and r the state of the first render
\* after it (they differ only when a later timer of the handler adds to s);
\* the effects run on r and the result becomes the next state
Commit(s, r, op) ==
    \E after \in {statusEffect(r)} :
    \E schedule \in {\/ ((setsBoard(op.kind) \/ effectDeps(r) # effectDeps(Cur))
                         /\ botEffectRuns(r, r.gameStatus))
                     \/ (after # r.gameStatus /\ botEffectRuns(r, after))} :
    \E timer \in {[pending |-> TRUE, closure |-> renderClosure(r)]} :
       /\ board' = s.board
       /\ currentPlayer' = s.currentPlayer
       /\ enPassantTarget' = s.enPassantTarget
       /\ gameStatus' = after
       /\ capturedPieces' = s.capturedPieces
       /\ movesSinceLastCaptureOrPawn' = s.movesSinceLastCaptureOrPawn
       /\ positionHistory' = s.positionHistory
       /\ gameHistory' = s.gameHistory
       /\ historyIndex' = s.historyIndex
       /\ laserPointerCount' = s.laserPointerCount
       /\ boneCount' = s.boneCount
       /\ isLaserPointerActive' = s.isLaserPointerActive
       /\ isBoneActive' = s.isBoneActive
       /\ promotion' = s.promotion
       /\ gameSettings' = s.gameSettings
       /\ botColor' = s.botColor
       /\ isBotThinking' = (s.isBotThinking \/ schedule)
       /\ botTimer' = IF schedule THEN timer ELSE s.botTimer
       /\ forceTimer' = IF schedule THEN timer ELSE s.forceTimer
       /\ moveCompleted' = IF schedule THEN FALSE ELSE s.moveCompleted
       /\ saved' = s.saved
       /\ plies' = plies + 1
       /\ last' = op

flip(player) == IF player = WHITE THEN BLACK ELSE WHITE

appendCaptured(captured, color, piece) ==
    IF piece = null THEN captured
    ELSE [captured EXCEPT ![color] = Append(@, piece)]

\* the part of the game that undo and redo are meant to bring back
Observed ==
    [board |-> board, currentPlayer |-> currentPlayer,
     enPassantTarget |-> enPassantTarget, capturedPieces |-> capturedPieces,
     movesSinceLastCaptureOrPawn |-> movesSinceLastCaptureOrPawn,
     positionHistory |-> positionHistory]

\* the record of an operation: what it was, the game it started from (pre),
\* the operation before it (prevKind) and the game that one started from
\* (before); searched is the board a bot callback computed its move on and
\* target the en-passant target its makeMove ran under
OpOn(kind, side, from, to, searched, target) ==
    [kind |-> kind, side |-> side, from |-> from, to |-> to,
     pre |-> Observed, prevKind |-> last.kind, before |-> last.pre,
     searched |-> searched, target |-> target]

Op(kind, side, from, to) == OpOn(kind, side, from, to, board, enPassantTarget)

----------------------------------------------------------------------------
(* ChessGame: operations *)

\* handleSquareClick on a selected piece's valid destination
HumanMove(from, to) ==
    /\ plies < MaxPlies
    /\ ~isGameOver(gameStatus)
    /\ ~promotion.show
    /\ ~(gameSettings.crazyMode /\ (isLaserPointerActive \/ isBoneActive))
    /\ ~(gameSettings.gameMode = "pvbot" /\ currentPlayer = botColor)
    /\ board[from] # null /\ board[from].color = currentPlayer
    /\ isValidMove(board, enPassantTarget, from, to, currentPlayer)
    /\ \E result \in {makeMove(board, enPassantTarget, from, to)} :
       \E saving \in {saveGameState(renderClosure(Cur), result.enPassantTarget)} :
       \E counted \in {[Cur EXCEPT
            !.enPassantTarget = result.enPassantTarget,
            !.capturedPieces = appendCaptured(@, currentPlayer, result.capturedPiece),
            !.movesSinceLastCaptureOrPawn =
                IF result.capturedPiece # null \/ board[from].type = "pawn"
                THEN 0 ELSE @ + 1]} :
       \E s \in {IF result.isPromotion
                 THEN [counted EXCEPT
                         !.promotion = [show |-> TRUE,
                                        position |-> result.promotionPosition,
                                        color |-> currentPlayer,
                                        pendingBoard |-> result.newBoard,
                                        pendingMove |-> <<from, to>>]]
                 ELSE [counted EXCEPT
                         !.positionHistory = Append(@, boardToString(result.newBoard)),
                         !.board = result.newBoard,
                         !.currentPlayer = flip(@),
                         !.gameHistory = saving.gameHistory,
                         !.historyIndex = saving.historyIndex]} :
          Commit(s, s, Op(IF result.isPromotion THEN "pending" ELSE "move",
                          currentPlayer, from, to))

\* handlePromotionSelect
PromotionSelect(pieceType) ==
    /\ plies < MaxPlies
    /\ promotion.show
    /\ \E promotedBoard \in {promotePawn(promotion.pendingBoard, promotion.position,
                                        pieceType)} :
       \E saving \in {saveGameState(renderClosure(Cur), enPassantTarget)} :
       \E s \in {[Cur EXCEPT
                    !.positionHistory = Append(@, boardToString(promotedBoard)),
                    !.board = promotedBoard,
                    !.currentPlayer = flip(@),
                    !.promotion = NoPromotion,
                    !.gameHistory = saving.gameHistory,
                    !.historyIndex = saving.historyIndex]} :
          Commit(s, s, Op("promote", currentPlayer, promotion.pendingMove[1],
                          promotion.pendingMove[2]))

\* handleUseLaserPointer / handleUseBone: the buttons of the abilities panel
UseLaserPointer ==
    /\ plies < MaxPlies
    /\ gameSettings.crazyMode /\ ~promotion.show
    /\ ~isLaserPointerActive
    /\ laserPointerCount > 0 /\ currentPlayer = WHITE
    /\ \E s \in {[Cur EXCEPT !.isLaserPointerActive = TRUE]} :
          Commit(s, s, Op("useLaser", currentPlayer, <<-1, -1>>, <<-1, -1>>))

UseBone ==
    /\ plies < MaxPlies
    /\ gameSettings.crazyMode /\ ~promotion.show
    /\ ~isBoneActive
    /\ boneCount > 0 /\ currentPlayer = BLACK
    /\ \E s \in {[Cur EXCEPT !.isBoneActive = TRUE]} :
          Commit(s, s, Op("useBone", currentPlayer, <<-1, -1>>, <<-1, -1>>))

\* the board after an ability moved the piece on `closest` to the target
placeOn(b, closest, target) == [[b EXCEPT ![target] = b[closest]] EXCEPT ![closest] = null]

\* handleSquareClick while the laser pointer is armed
LaserPointerPlacement(targetPosition) ==
    /\ plies < MaxPlies
    /\ ~isGameOver(gameStatus)
    /\ ~promotion.show
    /\ gameSettings.crazyMode /\ isLaserPointerActive
    /\ isValidPosition(targetPosition)
    /\ \E closest \in {findClosestPiece(board, targetPosition, BLACK)} :
       IF closest = {}
       THEN \E s \in {[Cur EXCEPT !.isLaserPointerActive = FALSE]} :
               Commit(s, s, Op("laserNone", currentPlayer, <<-1, -1>>, targetPosition))
       ELSE \E closestPiece \in closest :
            \E s \in {[Cur EXCEPT
                        !.capturedPieces = appendCaptured(@, WHITE, board[targetPosition]),
                        !.board = placeOn(board, closestPiece, targetPosition),
                        !.laserPointerCount = @ - 1,
                        !.currentPlayer = flip(@),
                        !.isLaserPointerActive = FALSE]} :
               Commit(s, s, Op("laser", currentPlayer, closestPiece, targetPosition))

\* handleSquareClick while the bone is armed
BonePlacement(targetPosition) ==
    /\ plies < MaxPlies
    /\ ~isGameOver(gameStatus)
    /\ ~promotion.show
    /\ gameSettings.crazyMode /\ ~isLaserPointerActive /\ isBoneActive
    /\ isValidPosition(targetPosition)
    /\ \E closest \in {findClosestPiece(board, targetPosition, WHITE)} :
       IF closest = {}
       THEN \E s \in {[Cur EXCEPT !.isBoneActive = FALSE]} :
               Commit(s, s, Op("boneNone", currentPlayer, <<-1, -1>>, targetPosition))
       ELSE \E closestPiece \in closest :
            \E s \in {[Cur EXCEPT
                        !.capturedPieces = appendCaptured(@, BLACK, board[targetPosition]),
                        !.board = placeOn(board, closestPiece, targetPosition),
                        !.boneCount = @ - 1,
                        !.currentPlayer = flip(@),
                        !.isBoneActive = FALSE]} :
               Commit(s, s, Op("bone", currentPlayer, closestPiece, targetPosition))

\* the snapshot a history entry restores
restore(state, index) ==
    [Cur EXCEPT
        !.board = state.board,
        !.currentPlayer = state.currentPlayer,
        !.capturedPieces = state.capturedPieces,
        !.laserPointerCount = state.laserPointerCount,
        !.boneCount = state.boneCount,
        !.movesSinceLastCaptureOrPawn = state.movesSinceLastCaptureOrPawn,
        !.positionHistory = state.positionHistory,
        !.enPassantTarget = state.enPassantTarget,
        !.historyIndex = index]

undoMove ==
    /\ plies < MaxPlies
    /\ ~promotion.show
    /\ historyIndex > 0
    /\ \E s \in {restore(gameHistory[historyIndex], historyIndex - 1)} :
          Commit(s, s, Op("undo", currentPlayer, <<-1, -1>>, <<-1, -1>>))

redoMove ==
    /\ plies < MaxPlies
    /\ ~promotion.show
    /\ historyIndex < Len(gameHistory) - 1
    /\ \E s \in {restore(gameHistory[historyIndex + 2], historyIndex + 1)} :
          Commit(s, s, Op("redo", currentPlayer, <<-1, -1>>, <<-1, -1>>))

\* the callback of botTimeoutRef; `throws` is a failure of the search
BotTimerFire(throws) ==
    /\ plies < MaxPlies
    /\ botTimer.pending
    /\ \E c \in {botTimer.closure} :
       \E fired \in {[Cur EXCEPT !.botTimer = NoTimer, !.isBotThinking = FALSE]} :
       IF throws
       THEN \E s \in {[fired EXCEPT !.currentPlayer = flip(@)]} :
               Commit(s, s, OpOn("botThrow", c.botColor, <<-1, -1>>, <<-1, -1>>,
                                 c.board, enPassantTarget))
       ELSE IF moveCompleted
       THEN \E s \in {[Cur EXCEPT !.botTimer = NoTimer]} :
               Commit(s, s, OpOn("botLate", c.botColor, <<-1, -1>>, <<-1, -1>>,
                                 c.board, enPassantTarget))
       ELSE \E search \in {calculateBotMove(c.board, enPassantTarget, c.botColor,
                              IF c.gameSettings.botDifficulty = "none" THEN "medium"
                              ELSE c.gameSettings.botDifficulty,
                              IF c.gameSettings.botPersonality = "none" THEN "balanced"
                              ELSE c.gameSettings.botPersonality)} :
            IF search.moves = {}
            THEN \E s \in {[fired EXCEPT !.moveCompleted = TRUE, !.forceTimer = NoTimer,
                                         !.currentPlayer = flip(@)]} :
                    Commit(s, s, OpOn("botNone", c.botColor, <<-1, -1>>, <<-1, -1>>,
                                      c.board, enPassantTarget))
            ELSE \E botMove \in search.moves :
                 \E result \in {makeMove(c.board, search.enPassantTarget,
                                         MoveFrom(botMove), MoveTo(botMove))} :
                 \E finalBoard \in {IF result.isPromotion
                                    THEN promotePawn(result.newBoard,
                                                     result.promotionPosition, "queen")
                                    ELSE result.newBoard} :
                 \E saving \in {saveGameState(c, result.enPassantTarget)} :
                 \E s \in {[fired EXCEPT
                            !.moveCompleted = TRUE, !.forceTimer = NoTimer,
                            !.enPassantTarget = result.enPassantTarget,
                            !.capturedPieces =
                                appendCaptured(@, c.botColor, result.capturedPiece),
                            !.movesSinceLastCaptureOrPawn =
                                IF result.capturedPiece # null
                                   \/ c.board[MoveFrom(botMove)].type = "pawn"
                                THEN 0 ELSE @ + 1,
                            !.positionHistory = Append(@, boardToString(finalBoard)),
                            !.board = finalBoard,
                            !.currentPlayer = flip(@),
                            !.gameHistory = saving.gameHistory,
                            !.historyIndex = saving.historyIndex]} :
                    Commit(s, s, OpOn("bot", c.botColor, MoveFrom(botMove),
                                      MoveTo(botMove), c.board, search.enPassantTarget))

\* the callback of botForceTimeoutRef; it is due 10 s after the render that
\* also set the 300 ms callback, so it never runs before that one
ForceTimerFire ==
    /\ plies < MaxPlies
    /\ forceTimer.pending /\ ~botTimer.pending
    /\ \E c \in {forceTimer.closure} :
       IF moveCompleted
       THEN \E s \in {[Cur EXCEPT !.forceTimer = NoTimer]} :
               Commit(s, s, OpOn("forceLate", c.botColor, <<-1, -1>>, <<-1, -1>>,
                                 c.board, enPassantTarget))
       ELSE \E fired \in {[Cur EXCEPT !.forceTimer = NoTimer, !.botTimer = NoTimer,
                                      !.moveCompleted = TRUE, !.isBotThinking = FALSE]} :
            \E legalMoves \in {getAllLegalMoves(convertToLogicBoard(c.board),
                                   IF c.botColor = WHITE THEN "dogs" ELSE "cats")} :
            IF legalMoves = {}
            THEN Commit(fired, fired,
                        OpOn("forceNone", c.botColor, <<-1, -1>>, <<-1, -1>>,
                             c.board, enPassantTarget))
            ELSE \E randomMove \in legalMoves :
                 \E result \in {makeMove(c.board, enPassantTarget,
                                         MoveFrom(randomMove), MoveTo(randomMove))} :
                 \E s \in {[fired EXCEPT
                            !.enPassantTarget = result.enPassantTarget,
                            !.capturedPieces =
                                appendCaptured(@, c.botColor, result.capturedPiece),
                            !.board = IF result.isPromotion
                                      THEN promotePawn(result.newBoard,
                                                       result.promotionPosition, "queen")
                                      ELSE result.newBoard,
                            !.currentPlayer = flip(@)]} :
                    Commit(s, s, OpOn("force", c.botColor, MoveFrom(randomMove),
                                      MoveTo(randomMove), c.board, enPassantTarget))

\* startNewGame, with its 100 ms timer that stores the initial history entry
startNewGame(settings) ==
    LET nextBotColor ==
            IF settings.gameMode = "pvbot" /\ settings.playerColor # "none"
            THEN IF settings.playerColor = "white" THEN BLACK ELSE WHITE
            ELSE "none"
        initialCurrentPlayer ==
            IF settings.gameMode = "pvbot" /\ settings.playerColor = "white"
               /\ nextBotColor = BLACK
            THEN BLACK ELSE WHITE
        abilityCount == IF settings.specialAbilityCount = 0 THEN 3
                        ELSE settings.specialAbilityCount
        noCaptures == [white |-> <<>>, black |-> <<>>]
        initialState ==
            [board |-> initialBoardState, currentPlayer |-> initialCurrentPlayer,
             capturedPieces |-> noCaptures, laserPointerCount |-> abilityCount,
             boneCount |-> abilityCount, enPassantTarget |-> NoTarget,
             movesSinceLastCaptureOrPawn |-> 0, positionHistory |-> <<>>]
    IN /\ plies < MaxPlies
       /\ \E r \in {[Cur EXCEPT
                !.gameSettings = settings, !.botColor = nextBotColor,
                !.board = initialBoardState, !.currentPlayer = initialCurrentPlayer,
                !.gameStatus = "ongoing", !.capturedPieces = noCaptures,
                !.laserPointerCount = abilityCount, !.boneCount = abilityCount,
                !.isLaserPointerActive = FALSE, !.isBoneActive = FALSE,
                !.movesSinceLastCaptureOrPawn = 0, !.positionHistory = <<>>,
                !.enPassantTarget = NoTarget, !.isBotThinking = FALSE,
                !.botTimer = NoTimer, !.forceTimer = NoTimer,
                !.promotion = NoPromotion,
                !.gameHistory = <<>>, !.historyIndex = -1]} :
          \E s \in {[r EXCEPT !.gameHistory = <<initialState>>, !.historyIndex = 0]} :
             Commit(s, r, Op("new", "none", <<-1, -1>>, <<-1, -1>>))

\* the periodic saveGameToStorage
saveGameToStorage ==
    /\ plies < MaxPlies
    /\ gameStatus \notin {"stalemate", "draw-insufficient", "draw-50moves", "draw-repetition"}
    /\ saved' = [present |-> TRUE, board |-> board, currentPlayer |-> currentPlayer,
                 capturedPieces |-> capturedPieces, gameStatus |-> gameStatus,
                 gameSettings |-> gameSettings,
                 laserPointerCount |-> laserPointerCount, boneCount |-> boneCount,
                 gameHistory |-> gameHistory, historyIndex |-> historyIndex,
                 enPassantTarget |-> enPassantTarget,
                 movesSinceLastCaptureOrPawn |-> movesSinceLastCaptureOrPawn,
                 positionHistory |-> positionHistory]
    /\ plies' = plies + 1
    /\ last' = Op("save", "none", <<-1, -1>>, <<-1, -1>>)
    /\ UNCHANGED <<board, currentPlayer, enPassantTarget, gameStatus, capturedPieces,
                   movesSinceLastCaptureOrPawn, positionHistory, gameHistory,
                   historyIndex, laserPointerCount, boneCount, isLaserPointerActive,
                   isBoneActive, promotion, gameSettings, botColor, isBotThinking,
                   botTimer, forceTimer, moveCompleted>>

\* the component after loadGameFromStorage applied the parsed gameData
loadedGame(gameData) ==
    [Cur EXCEPT
        !.board = gameData.board, !.currentPlayer = gameData.currentPlayer,
        !.capturedPieces = gameData.capturedPieces,
        !.gameStatus = gameData.gameStatus,
        !.gameSettings = gameData.gameSettings,
        !.laserPointerCount = gameData.laserPointerCount,
        !.boneCount = gameData.boneCount,
        !.gameHistory = gameData.gameHistory,
        \* historyIndex || -1
        !.historyIndex = IF gameData.historyIndex = 0 THEN -1
                         ELSE gameData.historyIndex,
        !.movesSinceLastCaptureOrPawn = gameData.movesSinceLastCaptureOrPawn,
        !.positionHistory = gameData.positionHistory,
        !.enPassantTarget = gameData.enPassantTarget]

loadGameFromStorage ==
    /\ plies < MaxPlies
    /\ ~promotion.show
    /\ saved.present
    /\ \E s \in {loadedGame(saved)} :
          Commit(s, s, Op("load", "none", <<-1, -1>>, <<-1, -1>>))

----------------------------------------------------------------------------
(* ChessGame: the component after its first render *)

InitialRender ==
    [board |-> initialBoardState, currentPlayer |-> WHITE,
     enPassantTarget |-> NoTarget, gameStatus |-> "ongoing",
     capturedPieces |-> [white |-> <<>>, black |-> <<>>],
     movesSinceLastCaptureOrPawn |-> 0, positionHistory |-> <<>>,
     gameHistory |-> <<>>, historyIndex |-> -1,
     laserPointerCount |-> 3, boneCount |-> 3,
     isLaserPointerActive |-> FALSE, isBoneActive |-> FALSE,
     promotion |-> NoPromotion, gameSettings |-> DefaultSettings,
     botColor |-> WHITE, isBotThinking |-> FALSE, botTimer |-> NoTimer,
     forceTimer |-> NoTimer, moveCompleted |-> FALSE, saved |-> NoSave]

Init ==
    LET r == InitialRender
        timer == [pending |-> TRUE, closure |-> renderClosure(r)]
    IN /\ board = r.board
       /\ currentPlayer = r.currentPlayer
       /\ enPassantTarget = r.enPassantTarget
       /\ gameStatus = statusEffect(r)
       /\ capturedPieces = r.capturedPieces
       /\ movesSinceLastCaptureOrPawn = 0
       /\ positionHistory = <<>>
       /\ gameHistory = <<>>
       /\ historyIndex = -1
       /\ laserPointerCount = 3
       /\ boneCount = 3
       /\ isLaserPointerActive = FALSE
       /\ isBoneActive = FALSE
       /\ promotion = NoPromotion
       /\ gameSettings = DefaultSettings
       /\ botColor = WHITE
       \* the bot-move effect of the first render: the bot plays White
       /\ isBotThinking = botEffectRuns(r, r.gameStatus)
       /\ botTimer = IF botEffectRuns(r, r.gameStatus) THEN timer ELSE NoTimer
       /\ forceTimer = IF botEffectRuns(r, r.gameStatus) THEN timer ELSE NoTimer
       /\ moveCompleted = FALSE
       /\ saved = NoSave
       /\ plies = 0
       /\ last = [kind |-> "init", side |-> "none", from |-> <<-1, -1>>,
                  to |-> <<-1, -1>>, pre |-> Observed, prevKind |-> "none",
                  before |-> Observed, searched |-> r.board, target |-> NoTarget]

Next ==
    \/ \E from \in ClickSquares, to \in ClickSquares : HumanMove(from, to)
    \/ \E pieceType \in {"queen", "rook", "bishop", "knight"} : PromotionSelect(pieceType)
    \/ UseLaserPointer
    \/ UseBone
    \/ \E targetPosition \in LaserTargets : LaserPointerPlacement(targetPosition)
    \/ \E targetPosition \in BoneTargets : BonePlacement(targetPosition)
    \/ undoMove
    \/ redoMove
    \/ \E throws \in BOOLEAN : BotTimerFire(throws)
    \/ ForceTimerFire
    \/ \E settings \in SettingsChoices : startNewGame(settings)
    \/ saveGameToStorage
    \/ loadGameFromStorage

Spec == Init /\ [][Next]_vars

----------------------------------------------------------------------------
(* chess-rules on its own: one call of makeMove on a board of a family     *)
(* that has castling, en-passant and pinned-piece cases.  The white king   *)
(* stands unmoved on its own square or, as after a bone placement, on the  *)
(* b-file or the f-file; a black rook bears down one file.                 *)

KingCols == {4, 1, 5}
AttackCols == 1..7
PawnCols == {3, 5}

ruleBoard(kingCol, attackCol, pawnCol) ==
    [p \in Pos |->
        CASE p = <<7, kingCol>> -> Piece("king", WHITE, FALSE)
          [] p = <<7, 0>> -> Piece("rook", WHITE, FALSE)
          [] p = <<7, 7>> -> Piece("rook", WHITE, FALSE)
          [] p = <<6, 3>> -> Piece("pawn", WHITE, FALSE)
          [] p = <<3, 4>> -> Piece("pawn", WHITE, TRUE)
          [] p = <<3, pawnCol>> -> Piece("pawn", BLACK, TRUE)
          [] p = <<1, attackCol>> -> Piece("rook", BLACK, TRUE)
          [] p = <<0, 4>> -> Piece("king", BLACK, TRUE)
          [] OTHER -> null]

\* the target left by the black pawn's advance, or none
ruleTargets(pawnCol) ==
    {NoTarget, [position |-> <<3, pawnCol>>, capturePosition |-> <<2, pawnCol>>]}

oneKingPerSide(b) ==
    \A color \in Colors :
        Cardinality({p \in Pos : b[p].type = "king" /\ b[p].color = color}) = 1

InitRules ==
    /\ \E kingCol \in KingCols, attackCol \in AttackCols, pawnCol \in PawnCols :
          /\ board = ruleBoard(kingCol, attackCol, pawnCol)
          /\ enPassantTarget \in ruleTargets(pawnCol)
    /\ currentPlayer = WHITE
    /\ gameStatus = "ongoing"
    /\ capturedPieces = [white |-> <<>>, black |-> <<>>]
    /\ movesSinceLastCaptureOrPawn = 0
    /\ positionHistory = <<>>
    /\ gameHistory = <<>>
    /\ historyIndex = -1
    /\ laserPointerCount = 3
    /\ boneCount = 3
    /\ isLaserPointerActive = FALSE
    /\ isBoneActive = FALSE
    /\ promotion = NoPromotion
    /\ gameSettings = DefaultSettings
    /\ botColor = WHITE
    /\ isBotThinking = FALSE
    /\ botTimer = NoTimer
    /\ forceTimer = NoTimer
    /\ moveCompleted = FALSE
    /\ saved = NoSave
    /\ plies = 0
    /\ last = [kind |-> "init", side |-> "none", from |-> <<-1, -1>>,
               to |-> <<-1, -1>>, pre |-> Observed, prevKind |-> "none",
               before |-> Observed, searched |-> board, target |-> NoTarget]

\* one call makeMove(board, from, to), valid or not, on a square with a piece
CallMakeMove(from, to) ==
    /\ plies < MaxCalls
    /\ board[from] # null
    /\ \E result \in {makeMove(board, enPassantTarget, from, to)} :
          /\ board' = result.newBoard
          /\ enPassantTarget' = result.enPassantTarget
          /\ currentPlayer' = flip(board[from].color)
          /\ last' = Op("makeMove", board[from].color, from, to)
    /\ plies' = plies + 1
    /\ UNCHANGED <<gameStatus, capturedPieces, movesSinceLastCaptureOrPawn,
                   positionHistory, gameHistory, historyIndex, laserPointerCount,
                   boneCount, isLaserPointerActive, isBoneActive, promotion,
                   gameSettings, botColor, isBotThinking, botTimer, forceTimer,
                   moveCompleted, saved>>

NextRules == \E from \in Pos, to \in Pos : CallMakeMove(from, to)

SpecRules == InitRules /\ [][NextRules]_vars

----------------------------------------------------------------------------
(* chess-rules in play: a game from the start position in which the two    *)
(* sides alternate moves that isValidMove accepts and makeMove executes,   *)
(* on the d- and e-files                                                   *)

GameSquares == {p \in Pos : p[2] \in GameCols}

InitGame ==
    /\ board = initialBoardState
    /\ enPassantTarget = NoTarget
    /\ currentPlayer = WHITE
    /\ gameStatus = "ongoing"
    /\ capturedPieces = [white |-> <<>>, black |-> <<>>]
    /\ movesSinceLastCaptureOrPawn = 0
    /\ positionHistory = <<>>
    /\ gameHistory = <<>>
    /\ historyIndex = -1
    /\ laserPointerCount = 3
    /\ boneCount = 3
    /\ isLaserPointerActive = FALSE
    /\ isBoneActive = FALSE
    /\ promotion = NoPromotion
    /\ gameSettings = DefaultSettings
    /\ botColor = WHITE
    /\ isBotThinking = FALSE
    /\ botTimer = NoTimer
    /\ forceTimer = NoTimer
    /\ moveCompleted = FALSE
    /\ saved = NoSave
    /\ plies = 0
    /\ last = [kind |-> "init", side |-> "none", from |-> <<-1, -1>>,
               to |-> <<-1, -1>>, pre |-> Observed, prevKind |-> "none",
               before |-> Observed, searched |-> board, target |-> NoTarget]

PlayMove(from, to) ==
    /\ plies < MaxGamePlies
    /\ isValidMove(board, enPassantTarget, from, to, currentPlayer)
    /\ \E result \in {makeMove(board, enPassantTarget, from, to)} :
          /\ board' = result.newBoard
          /\ enPassantTarget' = result.enPassantTarget
    /\ currentPlayer' = flip(currentPlayer)
    /\ last' = Op("play", currentPlayer, from, to)
    /\ plies' = plies + 1
    /\ UNCHANGED <<gameStatus, capturedPieces, movesSinceLastCaptureOrPawn,
                   positionHistory, gameHistory, historyIndex, laserPointerCount,
                   boneCount, isLaserPointerActive, isBoneActive, promotion,
                   gameSettings, botColor, isBotThinking, botTimer, forceTimer,
                   moveCompleted, saved>>

NextGame == \E from \in GameSquares, to \in GameSquares : PlayMove(from, to)

SpecGame == InitGame /\ [][NextGame]_vars

----------------------------------------------------------------------------
(* Properties of chess-rules, checked under SpecRules and SpecGame *)

\* C1: whenever isValidMove accepts a move by `side` on a board with one
\* king per side, under any en-passant target, the king of `side` is not
\* attacked on the board makeMove returns; castling (king onto own rook)
\* and en-passant captures included.
C1_AcceptedMoveLeavesKingSafe ==
    (/\ last.kind = "makeMove"
     /\ oneKingPerSide(last.pre.board)
     /\ isValidMove(last.pre.board, last.pre.enPassantTarget,
                    last.from, last.to, last.side))
    => ~isKingInCheck(board, last.side)

\* C2: after a call of makeMove that moves a piece, the en-passant target is
\* set iff the moved piece was a pawn whose row changed by exactly two, and
\* then it holds the landing square and the skipped square; after every
\* other executed move the target is empty.
C2_TargetIffDoubleStep ==
    last.kind = "makeMove" =>
        \E piece \in {last.pre.board[last.from]} :
        \E doubleStep \in {piece.type = "pawn"
                              /\ Abs(last.from[1] - last.to[1]) = 2} :
           /\ (enPassantTarget # NoTarget) <=> doubleStep
           /\ doubleStep =>
                 /\ enPassantTarget.position = last.to
                 /\ enPassantTarget.capturePosition[2] = last.to[2]
                 /\ 2 * enPassantTarget.capturePosition[1]
                       = last.from[1] + last.to[1]

\* a pawn's two-square advance has been executed and left its target
C2_DoubleStepMade ==
    /\ last.kind = "makeMove"
    /\ last.from = <<6, 3>> /\ last.to = <<4, 3>>
    /\ last.pre.board[last.from] = Piece("pawn", WHITE, FALSE)
    /\ enPassantTarget = [position |-> <<4, 3>>, capturePosition |-> <<5, 3>>]

\* the squares a pawn on `from` attacks diagonally forward
pawnDiagonals(b, from) ==
    LET direction == IF b[from].color = WHITE THEN -1 ELSE 1
    IN {to \in {<<from[1] + direction, from[2] - 1>>,
                <<from[1] + direction, from[2] + 1>>} : to \in Pos}

\* the diagonal pawn moves onto an empty square that isValidMove accepts now
acceptedEmptyDiagonals ==
    UNION {{<<from, to>> :
               to \in {t \in pawnDiagonals(board, from) :
                          /\ board[t] = null
                          /\ isValidMove(board, enPassantTarget, from, t,
                                         currentPlayer)}} :
           from \in {p \in Pos : /\ board[p] # null
                                 /\ board[p].type = "pawn"
                                 /\ board[p].color = currentPlayer}}

\* C3: in a game from the start position, a pawn's diagonal move onto an
\* empty square is accepted only if the ply just played was an opposing
\* pawn's two-square advance over that square; once any other move has
\* followed the advance, the diagonal move onto the skipped square is
\* rejected.
C3_EnPassantOnlyRightAfterDoubleStep ==
    \A m \in acceptedEmptyDiagonals :
        /\ last.kind = "play"
        /\ last.side = Opponent(currentPlayer)
        /\ last.pre.board[last.from] # null
        /\ last.pre.board[last.from].type = "pawn"
        /\ Abs(last.from[1] - last.to[1]) = 2
        /\ last.from[2] = last.to[2]
        /\ last.to = <<m[1][1], m[2][2]>>
        /\ m[2][2] = last.to[2]
        /\ 2 * m[2][1] = last.from[1] + last.to[1]

\* an en-passant capture is on offer
C3_EnPassantOffered ==
    /\ acceptedEmptyDiagonals # {}
    /\ last.kind = "play"
    /\ Abs(last.from[1] - last.to[1]) = 2

\* a double step was answered by another move and the pawn that could have
\* captured still stands beside the advanced pawn
C3_EnPassantLapsed ==
    /\ plies = MaxGamePlies
    /\ acceptedEmptyDiagonals = {}
    /\ board[<<3, 3>>] = Piece("pawn", WHITE, TRUE)
    /\ board[<<3, 4>>] = Piece("pawn", BLACK, TRUE)
    /\ board[<<2, 4>>] = null
    /\ board[<<1, 4>>] = null

----------------------------------------------------------------------------
(* Properties of the ChessGame orchestrator, checked under Spec *)

\* the operations that complete a ply
PlyKinds == {"move", "pending", "promote", "bot", "force", "laser", "bone"}

\* C4: in every reachable state of the orchestrator, a non-empty en-passant
\* target has on its landing square a pawn of the side that is not to move,
\* and that pawn made its two-square advance on the ply just completed.
C4_TargetIsFresh ==
    enPassantTarget # NoTarget =>
        /\ board[enPassantTarget.position] # null
        /\ board[enPassantTarget.position].type = "pawn"
        /\ board[enPassantTarget.position].color = Opponent(currentPlayer)
        /\ last.kind \in PlyKinds =>
              /\ last.kind \in {"move", "pending", "bot", "force"}
              /\ last.to = enPassantTarget.position
              /\ Abs(last.from[1] - last.to[1]) = 2

\* C5: in every state reached from the start position through the
\* orchestrator's operations whose status is not checkmate, stalemate or a
\* draw, the board holds exactly one king of each side.
C5_BothKingsOnBoard ==
    ~isGameOver(gameStatus) => oneKingPerSide(board)

\* C6: one undo after a move restores the board, the side to move and the
\* en-passant target to the values they had immediately before that move.
C6_UndoRestoresPreviousPly ==
    (last.kind = "undo" /\ last.prevKind \in {"move", "bot", "force"}) =>
        /\ board = last.before.board
        /\ currentPlayer = last.before.currentPlayer
        /\ enPassantTarget = last.before.enPassantTarget

\* C7: an undo immediately followed by a redo is the identity: board, side
\* to move, captured lists, en-passant target, half-move clock and position
\* history after the redo equal those before the undo.
C7_UndoRedoIsIdentity ==
    (last.kind = "redo" /\ last.prevKind = "undo") => Observed = last.before

\* C8: a bot move is applied only to the board it was computed from: when
\* the bot's timer fires and sets the board to the search's result, the
\* board has not changed since the search was scheduled.
C8_BotMoveOnSearchedBoard ==
    last.kind = "bot" => last.searched = last.pre.board

\* the firings of the bot's two timers that find the turn not yet completed
BotTurnKinds == {"bot", "botThrow", "force"}

\* C9: a bot turn applies exactly one bot move and flips the side to move
\* exactly once: a timer of the bot turn flips the side only together with a
\* move, and the fallback moves only while the turn is still the bot's, with
\* a move that is legal on the current board.
C9_OneMoveOneFlipPerBotTurn ==
    /\ last.kind \in BotTurnKinds =>
          /\ (currentPlayer # last.pre.currentPlayer) => board # last.pre.board
          /\ last.kind \in {"bot", "force"} => currentPlayer # last.pre.currentPlayer
    /\ last.kind = "force" =>
          /\ last.pre.currentPlayer = last.side
          /\ isValidMove(last.pre.board, last.pre.enPassantTarget,
                         last.from, last.to, last.side)

\* C10: when the bot's search throws while the bot has legal moves, the
\* turn does not pass to the opponent with the board unchanged.
C10_ThrowingSearchStillMoves ==
    (/\ last.kind = "botThrow"
     /\ hasLegalMoves(last.pre.board, last.pre.enPassantTarget, last.side))
    => ~(currentPlayer # last.pre.currentPlayer /\ board = last.pre.board)

----------------------------------------------------------------------------
(* chess-bot on its own: calls of calculateBotMove on small boards, one    *)
(* with an en-passant capture on offer, others with the white king mated,  *)
(* stalemated or free.  The calls share the rules' en-passant target.      *)

MaxBotCalls == 2

\* the board holding the given <<square, piece>> pairs
placed(pieces) ==
    [p \in Pos |-> IF \E e \in pieces : e[1] = p
                   THEN (CHOOSE e \in pieces : e[1] = p)[2]
                   ELSE null]

enPassantBoard ==
    placed({<<<<7, 4>>, Piece("king", WHITE, TRUE)>>,
            <<<<3, 4>>, Piece("pawn", WHITE, TRUE)>>,
            <<<<6, 0>>, Piece("pawn", WHITE, FALSE)>>,
            <<<<3, 3>>, Piece("pawn", BLACK, TRUE)>>,
            <<<<1, 7>>, Piece("pawn", BLACK, FALSE)>>,
            <<<<0, 4>>, Piece("king", BLACK, TRUE)>>})

QueenSquares == {<<6, 2>>, <<6, 1>>, <<4, 4>>, <<0, 7>>}

corneredKingBoard(queenSquare) ==
    placed({<<<<7, 0>>, Piece("king", WHITE, TRUE)>>,
            <<queenSquare, Piece("queen", BLACK, TRUE)>>,
            <<<<5, 1>>, Piece("king", BLACK, TRUE)>>})

botInputs ==
    {[board |-> enPassantBoard, enPassantTarget |-> t] :
        t \in {NoTarget, [position |-> <<3, 3>>, capturePosition |-> <<2, 3>>]}}
    \cup {[board |-> corneredKingBoard(q), enPassantTarget |-> NoTarget] :
            q \in QueenSquares}

InitBot ==
    /\ \E input \in botInputs :
          /\ board = input.board
          /\ enPassantTarget = input.enPassantTarget
    /\ currentPlayer = WHITE
    /\ gameStatus = "ongoing"
    /\ capturedPieces = [white |-> <<>>, black |-> <<>>]
    /\ movesSinceLastCaptureOrPawn = 0
    /\ positionHistory = <<>>
    /\ gameHistory = <<>>
    /\ historyIndex = -1
    /\ laserPointerCount = 3
    /\ boneCount = 3
    /\ isLaserPointerActive = FALSE
    /\ isBoneActive = FALSE
    /\ promotion = NoPromotion
    /\ gameSettings = DefaultSettings
    /\ botColor = WHITE
    /\ isBotThinking = FALSE
    /\ botTimer = NoTimer
    /\ forceTimer = NoTimer
    /\ moveCompleted = FALSE
    /\ saved = NoSave
    /\ plies = 0
    /\ last = [kind |-> "init", side |-> "none", difficulty |-> "none",
               personality |-> "none", target |-> NoTarget, returned |-> {},
               prev |-> <<>>]

\* one call calculateBotMove(board, color, difficulty, personality); the
\* record keeps the moves the call may return and the call before it
CallCalculateBotMove(color, difficulty, personality) ==
    /\ plies < MaxBotCalls
    /\ \E result \in {calculateBotMove(board, enPassantTarget, color,
                                       difficulty, personality)} :
          /\ enPassantTarget' = result.enPassantTarget
          /\ last' = [kind |-> "calculateBotMove", side |-> color,
                      difficulty |-> difficulty, personality |-> personality,
                      target |-> enPassantTarget, returned |-> result.moves,
                      prev |-> [kind |-> last.kind, side |-> last.side,
                                difficulty |-> last.difficulty,
                                personality |-> last.personality,
                                returned |-> last.returned]]
    /\ plies' = plies + 1
    /\ UNCHANGED <<board, currentPlayer, gameStatus, capturedPieces,
                   movesSinceLastCaptureOrPawn, positionHistory, gameHistory,
                   historyIndex, laserPointerCount, boneCount,
                   isLaserPointerActive, isBoneActive, promotion, gameSettings,
                   botColor, isBotThinking, botTimer, forceTimer, moveCompleted,
                   saved>>

NextBot ==
    \E color \in Colors, difficulty \in {"easy", "medium", "hard"},
       personality \in {"balanced", "aggressive"} :
        CallCalculateBotMove(color, difficulty, personality)

SpecBot == InitBot /\ [][NextBot]_vars

\* the moves of `color` that isValidMove accepts on b under the target ep
acceptedMoves(b, ep, color) ==
    UNION {{MoveKey(from, to) : to \in {t \in Pos : isValidMove(b, ep, from, t, color)}} :
           from \in Pos}

\* C11: calculateBotMove returns null iff isValidMove accepts no (from, to)
\* pair of the bot's side on the given board, and otherwise returns a pair
\* that isValidMove accepts for that side on that board.
C11_BotMoveIsAccepted ==
    last.kind = "calculateBotMove" =>
        \E accepted \in {acceptedMoves(board, last.target, last.side)} :
           /\ (last.returned = {}) <=> (accepted = {})
           /\ last.returned \subseteq accepted

\* a call that returned a move and a call that returned null
C11_MoveReturned ==
    /\ last.kind = "calculateBotMove"
    /\ last.returned # {}
    /\ board = enPassantBoard

C11_NullReturned ==
    /\ last.kind = "calculateBotMove"
    /\ last.returned = {}
    /\ last.side = WHITE
    /\ acceptedMoves(board, last.target, WHITE) = {}

\* C12: at difficulty hard, two consecutive calls of calculateBotMove with
\* the same board, side and personality return the same move.
C12_HardIsDeterministic ==
    (/\ last.kind = "calculateBotMove"
     /\ last.prev.kind = "calculateBotMove"
     /\ last.difficulty = "hard" /\ last.prev.difficulty = "hard"
     /\ last.side = last.prev.side
     /\ last.personality = last.prev.personality)
    => last.returned = last.prev.returned

----------------------------------------------------------------------------
(* Attack geometry as the rules of chess state it, for comparison with     *)
(* the rules engine                                                        *)

\* the squares strictly between p and q on a common row, column or diagonal
squaresBetween(p, q) ==
    LET dr == q[1] - p[1]
        dc == q[2] - p[2]
        n == Max(Abs(dr), Abs(dc))
    IN IF p # q /\ (dr = 0 \/ dc = 0 \/ Abs(dr) = Abs(dc))
       THEN {<<p[1] + i * (dr \div n), p[2] + i * (dc \div n)>> : i \in 1..(n - 1)}
       ELSE {}

\* the piece standing on p attacks the square sq on board b
attacks(b, p, sq) ==
    LET dr == Abs(sq[1] - p[1])
        dc == Abs(sq[2] - p[2])
        clear == \A m \in squaresBetween(p, sq) : b[m] = null
        straight == (dr = 0 \/ dc = 0) /\ clear
        diagonal == dr = dc /\ clear
    IN /\ p # sq
       /\ CASE b[p].type = "pawn" ->
                  /\ sq[1] = p[1] + (IF b[p].color = WHITE THEN -1 ELSE 1)
                  /\ dc = 1
            [] b[p].type = "knight" -> {dr, dc} = {1, 2}
            [] b[p].type = "king" -> dr <= 1 /\ dc <= 1
            [] b[p].type = "rook" -> straight
            [] b[p].type = "bishop" -> diagonal
            [] b[p].type = "queen" -> straight \/ diagonal
            [] OTHER -> FALSE

\* some piece that is not of `color` attacks sq on board b
attackedByOpponent(b, sq, color) ==
    \E p \in Pos : b[p] # null /\ b[p].color # color /\ attacks(b, p, sq)

\* the conditions under which the king on `from` may castle with the piece
\* on `to`
mayCastle(b, from, to) ==
    LET toward == IF to[2] > from[2] THEN 1 ELSE -1
        lifted == [b EXCEPT ![from] = null]
    IN /\ b[to].type = "rook"
       /\ from[1] = to[1]
       /\ ~b[from].hasMoved /\ ~b[to].hasMoved
       /\ \A m \in squaresBetween(from, to) : b[m] = null
       /\ ~attackedByOpponent(b, from, b[from].color)
       /\ \A step \in 1..2 :
             \A sq \in {<<from[1], from[2] + step * toward>>} :
                sq \in Pos => ~attackedByOpponent(lifted, sq, b[from].color)

\* the moves of a piece onto a piece of its own side
ownPieceMoves(b) ==
    UNION {{<<from, to>> : to \in {t \in Pos : t # from /\ b[t] # null
                                              /\ b[t].color = b[from].color}} :
           from \in {p \in Pos : b[p] # null}}

\* C13: isValidMove accepts a king's move onto a rook of its side iff both
\* stand on the same row, neither has hasMoved set, the squares between
\* them are empty, the king is not in check and neither the first nor the
\* second square from the king toward the rook is attacked; it rejects
\* every other move onto a piece of the mover's side.
C13_CastlingAcceptedIffAllowed ==
    \A m \in ownPieceMoves(board) :
        isValidMove(board, enPassantTarget, m[1], m[2], board[m[1]].color)
        <=> (board[m[1]].type = "king" /\ mayCastle(board, m[1], m[2]))

\* castling is on offer on one side and refused on the other because a
\* square the king would cross is attacked
C13_CastlingOfferedAndRefused ==
    /\ last.kind = "makeMove"
    /\ board[<<7, 4>>] = Piece("king", WHITE, FALSE)
    /\ isValidMove(board, enPassantTarget, <<7, 4>>, <<7, 7>>, WHITE)
    /\ ~isValidMove(board, enPassantTarget, <<7, 4>>, <<7, 0>>, WHITE)
    /\ board[<<7, 0>>] = Piece("rook", WHITE, FALSE)
    /\ \A col \in 1..3 : board[<<7, col>>] = null

----------------------------------------------------------------------------
(* chess-rules, castling rights: kings and rooks of both sides, all         *)
(* unmoved, make moves that isValidMove accepts and makeMove executes on   *)
(* the two rows next to their own edge of the board                        *)

MaxCastlePlies == 3

CastleSquares == {p \in Pos : p[1] \in {0, 1, 6, 7}}

castleBoard ==
    placed({<<<<7, 4>>, Piece("king", WHITE, FALSE)>>,
            <<<<7, 0>>, Piece("rook", WHITE, FALSE)>>,
            <<<<7, 7>>, Piece("rook", WHITE, FALSE)>>,
            <<<<0, 4>>, Piece("king", BLACK, FALSE)>>,
            <<<<0, 0>>, Piece("rook", BLACK, FALSE)>>,
            <<<<0, 7>>, Piece("rook", BLACK, FALSE)>>})

InitCastle ==
    /\ board = castleBoard
    /\ enPassantTarget = NoTarget
    /\ currentPlayer = WHITE
    /\ gameStatus = "ongoing"
    /\ capturedPieces = [white |-> <<>>, black |-> <<>>]
    /\ movesSinceLastCaptureOrPawn = 0
    /\ positionHistory = <<>>
    /\ gameHistory = <<>>
    /\ historyIndex = -1
    /\ laserPointerCount = 3
    /\ boneCount = 3
    /\ isLaserPointerActive = FALSE
    /\ isBoneActive = FALSE
    /\ promotion = NoPromotion
    /\ gameSettings = DefaultSettings
    /\ botColor = WHITE
    /\ isBotThinking = FALSE
    /\ botTimer = NoTimer
    /\ forceTimer = NoTimer
    /\ moveCompleted = FALSE
    /\ saved = NoSave
    /\ plies = 0
    /\ last = [kind |-> "init", from |-> <<-1, -1>>, to |-> <<-1, -1>>,
               movedPieces |-> {}]

\* the squares holding a king or rook that a makeMove call has moved, after
\* the move from -> to on board b
movedAfter(b, movedPieces, from, to) ==
    IF b[to] # null /\ b[to].color = b[from].color
    THEN (movedPieces \ {from, to})
            \cup {<<from[1], IF to[2] > from[2] THEN 6 ELSE 2>>,
                  <<from[1], IF to[2] > from[2] THEN 5 ELSE 3>>}
    ELSE (movedPieces \ {from, to}) \cup {to}

\* makeMove(board, from, to) after isValidMove accepted the move
PlayCastleMove(from, to) ==
    /\ plies < MaxCastlePlies
    /\ board[from] # null
    /\ isValidMove(board, enPassantTarget, from, to, board[from].color)
    /\ \E result \in {makeMove(board, enPassantTarget, from, to)} :
          /\ board' = result.newBoard
          /\ enPassantTarget' = result.enPassantTarget
    /\ currentPlayer' = flip(board[from].color)
    /\ last' = [kind |-> "castleMove", from |-> from, to |-> to,
                movedPieces |-> movedAfter(board, last.movedPieces, from, to)]
    /\ plies' = plies + 1
    /\ UNCHANGED <<gameStatus, capturedPieces, movesSinceLastCaptureOrPawn,
                   positionHistory, gameHistory, historyIndex, laserPointerCount,
                   boneCount, isLaserPointerActive, isBoneActive, promotion,
                   gameSettings, botColor, isBotThinking, botTimer, forceTimer,
                   moveCompleted, saved>>

NextCastle == \E from \in CastleSquares, to \in CastleSquares : PlayCastleMove(from, to)

SpecCastle == InitCastle /\ [][NextCastle]_vars

\* C14: in a sequence of moves executed by makeMove, once a king or a rook
\* has been moved, isValidMove rejects every later castling attempt with
\* that piece, also after the piece has returned to its original square.
C14_MovedPieceNeverCastles ==
    \A from \in CastleSquares, to \in CastleSquares :
        (/\ board[from].type = "king" /\ board[to].type = "rook"
         /\ board[to].color = board[from].color
         /\ {from, to} \cap last.movedPieces # {})
        => ~isValidMove(board, enPassantTarget, from, to, board[from].color)

\* the white king has gone out and come back to e1; the rook on h1 has not
\* moved and the squares between them are empty
C14_KingCameBack ==
    /\ last.kind = "castleMove"
    /\ <<7, 4>> \in last.movedPieces /\ board[<<7, 4>>].type = "king"
    /\ <<7, 7>> \notin last.movedPieces
    /\ board[<<7, 7>>] = Piece("rook", WHITE, FALSE)
    /\ board[<<7, 5>>] = null /\ board[<<7, 6>>] = null

\* the rook on h1 has gone out and come back; the king has not moved
C14_RookCameBack ==
    /\ last.kind = "castleMove"
    /\ <<7, 7>> \in last.movedPieces /\ board[<<7, 7>>].type = "rook"
    /\ <<7, 4>> \notin last.movedPieces
    /\ board[<<7, 4>>] = Piece("king", WHITE, FALSE)
    /\ board[<<7, 5>>] = null /\ board[<<7, 6>>] = null

----------------------------------------------------------------------------
(* Castling as makeMove executes it *)

\* the call observed in `last` moved a king onto a rook of its side
castlingCall ==
    /\ last.kind = "makeMove"
    /\ last.searched[last.from].type = "king"
    /\ last.searched[last.to].type = "rook"
    /\ last.searched[last.to].color = last.searched[last.from].color

\* the squares the king and the rook are placed on
castledKing == <<last.from[1], IF last.to[2] > last.from[2] THEN 6 ELSE 2>>
castledRook == <<last.from[1], IF last.to[2] > last.from[2] THEN 5 ELSE 3>>

\* the outcome of the castling call, with `emptied` the squares it must
\* have left empty
castlingOutcome(emptied) ==
    \E result \in {makeMove(last.searched, last.target, last.from, last.to)} :
        /\ board = result.newBoard
        /\ board[castledKing] = Piece("king", last.side, TRUE)
        /\ board[castledRook] = Piece("rook", last.side, TRUE)
        /\ \A p \in emptied : board[p] = null
        /\ enPassantTarget = NoTarget
        /\ result.capturedPiece = null
        /\ result.isCastling
        /\ \A p \in Pos \ {last.from, last.to, castledKing, castledRook} :
              board[p] = last.searched[p]

\* C15 (as stated): makeMove for a king moving onto a same-side rook puts
\* the king on column 6 and the rook on column 5 of the king's row when the
\* rook is to the right, on columns 2 and 3 when it is to the left, empties
\* both origin squares, sets hasMoved on both, clears the en-passant
\* target, reports no captured piece and isCastling, and leaves every other
\* square unchanged.
C15_CastlingEmptiesBothOrigins ==
    castlingCall => castlingOutcome({last.from, last.to})

\* C15 (amended): as above, but an origin square is left empty only when
\* it is not one of the two squares the king and the rook are placed on.
C15_CastlingOutcome ==
    castlingCall => castlingOutcome({last.from, last.to} \ {castledKing, castledRook})

\* the king castled from the f-file: the rook now stands where it stood
C15_CastledFromFFile ==
    /\ castlingCall
    /\ last.from = <<7, 5>> /\ last.to = <<7, 7>>
    /\ board[<<7, 5>>].type = "rook" /\ board[<<7, 6>>].type = "king"

\* the king castled from its own square
C15_CastledFromEFile ==
    /\ castlingCall
    /\ last.from = <<7, 4>> /\ last.to = <<7, 0>>
    /\ last.target # NoTarget
    /\ board[<<7, 2>>].type = "king" /\ board[<<7, 3>>].type = "rook"

----------------------------------------------------------------------------
(* En-passant captures as the orchestrator's makeMove calls execute them *)

\* C16: makeMove reports isEnPassant exactly when the moving piece is a
\* pawn moving diagonally onto the capture square of the current
\* en-passant target; it then removes the pawn on the target's landing
\* square (the destination's column, one row behind it), reports that pawn
\* as capturedPiece, and the removed pawn belongs to the opposing side.
C16_EnPassantIffDiagonalOntoCaptureSquare ==
    last.kind \in {"move", "pending"} =>
        \E result \in {makeMove(last.searched, last.target, last.from, last.to)} :
            LET piece == last.searched[last.from]
                diagonal == /\ Abs(last.to[1] - last.from[1]) = 1
                            /\ Abs(last.to[2] - last.from[2]) = 1
                landing == <<last.from[1], last.to[2]>>
            IN /\ result.isEnPassant
                  <=> (/\ piece.type = "pawn"
                       /\ diagonal
                       /\ last.target # NoTarget
                       /\ last.to = last.target.capturePosition)
               /\ result.isEnPassant =>
                     /\ last.searched[landing].type = "pawn"
                     /\ last.searched[landing].color = Opponent(last.side)
                     /\ result.capturedPiece = last.searched[landing]
                     /\ result.newBoard[landing] = null

----------------------------------------------------------------------------
(* chess-rules, isKingInCheck on its own: a king, one opposing piece of    *)
(* any type on any square and, possibly, a knight standing next to the     *)
(* king in the way                                                         *)

MaxCheckCalls == 1

KingSquares == {<<4, 3>>, <<0, 0>>}
BlockerSquares == {<<3, 3>>, <<4, 4>>, <<5, 2>>}
PieceTypes == {"pawn", "rook", "knight", "bishop", "queen", "king"}

checkBoard(kingColor, kingSquare, attacker, type, blockers) ==
    placed({<<kingSquare, Piece("king", kingColor, TRUE)>>,
            <<attacker, Piece(type, Opponent(kingColor), TRUE)>>}
           \cup {<<blocker, Piece("knight", kingColor, TRUE)>> : blocker \in blockers})

InitCheck ==
    /\ \E kingColor \in Colors, kingSquare \in KingSquares, type \in PieceTypes :
       \E attacker \in Pos \ {kingSquare} :
       \E blockers \in {{}} \cup {{s} : s \in BlockerSquares \ {kingSquare, attacker}} :
          board = checkBoard(kingColor, kingSquare, attacker, type, blockers)
    /\ enPassantTarget = NoTarget
    /\ currentPlayer = WHITE
    /\ gameStatus = "ongoing"
    /\ capturedPieces = [white |-> <<>>, black |-> <<>>]
    /\ movesSinceLastCaptureOrPawn = 0
    /\ positionHistory = <<>>
    /\ gameHistory = <<>>
    /\ historyIndex = -1
    /\ laserPointerCount = 3
    /\ boneCount = 3
    /\ isLaserPointerActive = FALSE
    /\ isBoneActive = FALSE
    /\ promotion = NoPromotion
    /\ gameSettings = DefaultSettings
    /\ botColor = WHITE
    /\ isBotThinking = FALSE
    /\ botTimer = NoTimer
    /\ forceTimer = NoTimer
    /\ moveCompleted = FALSE
    /\ saved = NoSave
    /\ plies = 0
    /\ last = [kind |-> "init", side |-> "none", returned |-> FALSE]

\* one call isKingInCheck(board, kingColor)
CallIsKingInCheck(kingColor) ==
    /\ plies < MaxCheckCalls
    /\ last' = [kind |-> "isKingInCheck", side |-> kingColor,
                returned |-> isKingInCheck(board, kingColor)]
    /\ plies' = plies + 1
    /\ UNCHANGED <<board, currentPlayer, enPassantTarget, gameStatus, capturedPieces,
                   movesSinceLastCaptureOrPawn, positionHistory, gameHistory,
                   historyIndex, laserPointerCount, boneCount, isLaserPointerActive,
                   isBoneActive, promotion, gameSettings, botColor, isBotThinking,
                   botTimer, forceTimer, moveCompleted, saved>>

NextCheck == \E kingColor \in Colors : CallIsKingInCheck(kingColor)

SpecCheck == InitCheck /\ [][NextCheck]_vars

\* the squares holding a king of `color`
kingsOf(b, color) == {p \in Pos : b[p].type = "king" /\ b[p].color = color}

\* C17: isKingInCheck(board, side) returns true iff the board holds a king
\* of side and some opposing piece attacks its square: a pawn its two
\* forward-diagonal squares only, rook, bishop and queen along unobstructed
\* rays, a knight by its L-jumps, a king its adjacent squares; with no king
\* of side on the board it returns false.
C17_CheckIffKingAttacked ==
    last.kind = "isKingInCheck" =>
        (last.returned
         <=> \E k \in kingsOf(board, last.side) :
                attackedByOpponent(board, k, last.side))

\* a bishop gives check along an open diagonal
C17_CheckAlongDiagonal ==
    /\ last.kind = "isKingInCheck" /\ last.side = WHITE /\ last.returned
    /\ board[<<4, 3>>] = Piece("king", WHITE, TRUE)
    /\ board[<<1, 0>>] = Piece("bishop", BLACK, TRUE)

\* a pawn straight in front of the king gives no check
C17_PawnStraightAhead ==
    /\ last.kind = "isKingInCheck" /\ last.side = WHITE /\ ~last.returned
    /\ board[<<4, 3>>] = Piece("king", WHITE, TRUE)
    /\ board[<<3, 3>>] = Piece("pawn", BLACK, TRUE)

\* a knight in the way shields the king from a rook
C17_RayObstructed ==
    /\ last.kind = "isKingInCheck" /\ last.side = WHITE /\ ~last.returned
    /\ board[<<4, 3>>] = Piece("king", WHITE, TRUE)
    /\ board[<<4, 4>>] = Piece("knight", WHITE, TRUE)
    /\ board[<<4, 7>>] = Piece("rook", BLACK, TRUE)

\* the side asked about has no king on the board
C17_NoKingNoCheck ==
    /\ last.kind = "isKingInCheck" /\ ~last.returned
    /\ kingsOf(board, last.side) = {}

----------------------------------------------------------------------------
(* chess-rules, isCheckmate and isStalemate on their own: the white king   *)
(* in the corner, the black king near it or far away, one black piece on   *)
(* any square and, possibly, a white pawn free to move                     *)

MaxMateCalls == 1

BlackKingSquares == {<<5, 1>>, <<0, 7>>}
MatingTypes == {"queen", "rook", "bishop", "knight"}
FreePawnSquares == {<<6, 7>>}

mateBoard(blackKing, type, square, pawns) ==
    placed({<<<<7, 0>>, Piece("king", WHITE, TRUE)>>,
            <<blackKing, Piece("king", BLACK, TRUE)>>,
            <<square, Piece(type, BLACK, TRUE)>>}
           \cup {<<pawn, Piece("pawn", WHITE, FALSE)>> : pawn \in pawns})

InitMate ==
    /\ \E blackKing \in BlackKingSquares, type \in MatingTypes :
       \E square \in Pos \ {<<7, 0>>, blackKing} :
       \E pawns \in {{}} \cup {{s} : s \in FreePawnSquares \ {square, blackKing}} :
          board = mateBoard(blackKing, type, square, pawns)
    /\ enPassantTarget = NoTarget
    /\ currentPlayer = WHITE
    /\ gameStatus = "ongoing"
    /\ capturedPieces = [white |-> <<>>, black |-> <<>>]
    /\ movesSinceLastCaptureOrPawn = 0
    /\ positionHistory = <<>>
    /\ gameHistory = <<>>
    /\ historyIndex = -1
    /\ laserPointerCount = 3
    /\ boneCount = 3
    /\ isLaserPointerActive = FALSE
    /\ isBoneActive = FALSE
    /\ promotion = NoPromotion
    /\ gameSettings = DefaultSettings
    /\ botColor = WHITE
    /\ isBotThinking = FALSE
    /\ botTimer = NoTimer
    /\ forceTimer = NoTimer
    /\ moveCompleted = FALSE
    /\ saved = NoSave
    /\ plies = 0
    /\ last = [kind |-> "init", side |-> "none", checkmate |-> FALSE,
               stalemate |-> FALSE]

\* one call each of isCheckmate(board, color) and isStalemate(board, color)
CallIsCheckmate(color) ==
    /\ plies < MaxMateCalls
    /\ last' = [kind |-> "isCheckmate", side |-> color,
                checkmate |-> isCheckmate(board, enPassantTarget, color),
                stalemate |-> isStalemate(board, enPassantTarget, color)]
    /\ plies' = plies + 1
    /\ UNCHANGED <<board, currentPlayer, enPassantTarget, gameStatus, capturedPieces,
                   movesSinceLastCaptureOrPawn, positionHistory, gameHistory,
                   historyIndex, laserPointerCount, boneCount, isLaserPointerActive,
                   isBoneActive, promotion, gameSettings, botColor, isBotThinking,
                   botTimer, forceTimer, moveCompleted, saved>>

NextMate == \E color \in Colors : CallIsCheckmate(color)

SpecMate == InitMate /\ [][NextMate]_vars

\* the opposing pieces attacking the king of `color`
checkers(b, color) ==
    {p \in Pos : /\ b[p] # null /\ b[p].color # color
                 /\ \E k \in kingsOf(b, color) : attacks(b, p, k)}

\* C18: isCheckmate is true iff the side's king is in check and no
\* (from, to) pair satisfies isValidMove for the side; isStalemate is true
\* iff the king is not in check and no such pair exists; they are never
\* both true; removing the only attacker from a checkmate position makes
\* isCheckmate false.
C18_MateAndStalemate ==
    last.kind = "isCheckmate" =>
        \E accepted \in {acceptedMoves(board, enPassantTarget, last.side)},
           attackers \in {checkers(board, last.side)} :
            /\ last.checkmate <=> (attackers # {} /\ accepted = {})
            /\ last.stalemate <=> (attackers = {} /\ accepted = {})
            /\ ~(last.checkmate /\ last.stalemate)
            /\ (last.checkmate /\ Cardinality(attackers) = 1) =>
                  \A a \in attackers :
                     ~isCheckmate([board EXCEPT ![a] = null], enPassantTarget, last.side)

\* the queen, guarded by her king, mates the cornered king
C18_QueenMates ==
    /\ last.kind = "isCheckmate" /\ last.side = WHITE
    /\ last.checkmate /\ ~last.stalemate
    /\ board[<<6, 1>>] = Piece("queen", BLACK, TRUE)
    /\ checkers(board, WHITE) = {<<6, 1>>}

\* the queen stalemates the cornered king
C18_QueenStalemates ==
    /\ last.kind = "isCheckmate" /\ last.side = WHITE
    /\ last.stalemate /\ ~last.checkmate
    /\ board[<<6, 2>>] = Piece("queen", BLACK, TRUE)

\* the cornered king has no move but a pawn has: neither mate nor stalemate
C18_PawnCanMove ==
    /\ last.kind = "isCheckmate" /\ last.side = WHITE
    /\ ~last.stalemate /\ ~last.checkmate
    /\ board[<<6, 2>>] = Piece("queen", BLACK, TRUE)
    /\ board[<<5, 1>>] = Piece("king", BLACK, TRUE)
    /\ board[<<6, 7>>] = Piece("pawn", WHITE, FALSE)

----------------------------------------------------------------------------
(* The half-move clock of the fifty-move rule, checked under Spec *)

\* the ply observed in `last` moved a pawn or captured a piece
captureOrPawnMove ==
    \/ last.searched[last.from].type = "pawn"
    \/ makeMove(last.searched, last.target, last.from, last.to).capturedPiece # null

\* C19: on every ply applied to the board (human move, bot move or forced
\* fallback move) the half-move clock becomes 0 if the ply was a capture or
\* a pawn move and otherwise increases by exactly 1; the status becomes
\* draw-50moves when the clock reaches 100 and the side to move is neither
\* checkmated nor stalemated and material is sufficient.
C19_HalfMoveClock ==
    /\ last.kind \in {"move", "pending", "bot", "force"} =>
          movesSinceLastCaptureOrPawn =
              IF captureOrPawnMove THEN 0
              ELSE last.pre.movesSinceLastCaptureOrPawn + 1
    /\ (/\ movesSinceLastCaptureOrPawn >= 100
        /\ ~promotion.show
        /\ ~isCheckmate(board, enPassantTarget, currentPlayer)
        /\ ~isStalemate(board, enPassantTarget, currentPlayer)
        /\ ~hasInsufficientMaterial(board))
       => gameStatus = "draw-50moves"

----------------------------------------------------------------------------
(* chess-rules, checkThreefoldRepetition on its own: position histories    *)
(* built from the signatures of three positions                            *)

MaxHistory == 6

knightOut == makeMove(initialBoardState, NoTarget, <<7, 6>>, <<5, 5>>).newBoard
knightsOut == makeMove(knightOut, NoTarget, <<0, 6>>, <<2, 5>>).newBoard

Signatures ==
    {boardToString(initialBoardState), boardToString(knightOut),
     boardToString(knightsOut)}

InitRepetition ==
    /\ board = initialBoardState
    /\ enPassantTarget = NoTarget
    /\ currentPlayer = WHITE
    /\ gameStatus = "ongoing"
    /\ capturedPieces = [white |-> <<>>, black |-> <<>>]
    /\ movesSinceLastCaptureOrPawn = 0
    /\ positionHistory = <<>>
    /\ gameHistory = <<>>
    /\ historyIndex = -1
    /\ laserPointerCount = 3
    /\ boneCount = 3
    /\ isLaserPointerActive = FALSE
    /\ isBoneActive = FALSE
    /\ promotion = NoPromotion
    /\ gameSettings = DefaultSettings
    /\ botColor = WHITE
    /\ isBotThinking = FALSE
    /\ botTimer = NoTimer
    /\ forceTimer = NoTimer
    /\ moveCompleted = FALSE
    /\ saved = NoSave
    /\ plies = 0
    /\ last = [kind |-> "init", returned |-> FALSE]

\* a position is appended and checkThreefoldRepetition(positionHistory) called
CallCheckThreefoldRepetition(signature) ==
    /\ Len(positionHistory) < MaxHistory
    /\ \E history \in {Append(positionHistory, signature)} :
          /\ positionHistory' = history
          /\ last' = [kind |-> "checkThreefoldRepetition",
                      returned |-> checkThreefoldRepetition(history)]
    /\ UNCHANGED <<board, currentPlayer, enPassantTarget, gameStatus, capturedPieces,
                   movesSinceLastCaptureOrPawn, gameHistory, historyIndex,
                   laserPointerCount, boneCount, isLaserPointerActive, isBoneActive,
                   promotion, gameSettings, botColor, isBotThinking, botTimer,
                   forceTimer, moveCompleted, saved, plies>>

NextRepetition == \E signature \in Signatures : CallCheckThreefoldRepetition(signature)

SpecRepetition == InitRepetition /\ [][NextRepetition]_vars

\* how many entries of the history equal its last entry
lastOccurs(history) ==
    Len(SelectSeq(history, LAMBDA entry : entry = history[Len(history)]))

\* C20: checkThreefoldRepetition(history) returns true iff the history has
\* at least 5 entries and its last entry occurs at least 3 times in the
\* whole history; a history whose last signature occurs only twice returns
\* false.
C20_ThreefoldIffThreeOfLast ==
    last.kind = "checkThreefoldRepetition" =>
        /\ last.returned
           <=> (Len(positionHistory) >= 5 /\ lastOccurs(positionHistory) >= 3)
        /\ lastOccurs(positionHistory) = 2 => ~last.returned

\* the same signature at the first, third and fifth place of five
C20_ThreeOfFive ==
    /\ last.kind = "checkThreefoldRepetition" /\ last.returned
    /\ Len(positionHistory) = 5
    /\ positionHistory[1] = positionHistory[5] /\ positionHistory[3] = positionHistory[5]
    /\ positionHistory[2] # positionHistory[5] /\ positionHistory[4] # positionHistory[5]

\* the last signature occurs only twice in a history of six
C20_TwoRepeats ==
    /\ last.kind = "checkThreefoldRepetition" /\ ~last.returned
    /\ Len(positionHistory) = 6
    /\ lastOccurs(positionHistory) = 2

\* three occurrences of the last signature in a history of four
C20_ThreeOfFour ==
    /\ last.kind = "checkThreefoldRepetition" /\ ~last.returned
    /\ Len(positionHistory) = 4
    /\ lastOccurs(positionHistory) = 3

----------------------------------------------------------------------------
(* chess-rules, hasInsufficientMaterial on its own: the two kings and up   *)
(* to two further pieces of each side                                      *)

MaxMaterialCalls == 1

WhiteExtraSquares == {<<4, 0>>, <<4, 1>>, <<5, 5>>}
BlackExtraSquares == {<<3, 2>>, <<3, 3>>}
ExtraTypes == {"pawn", "rook", "knight", "bishop", "queen"}

\* the ways of putting at most two pieces of `color` on `squares`
extraPieces(squares, color) ==
    {{}} \cup {{<<s, Piece(t, color, TRUE)>>} : s \in squares, t \in ExtraTypes}
         \cup UNION {UNION {{{<<s1, Piece(t1, color, TRUE)>>,
                               <<s2, Piece(t2, color, TRUE)>>} :
                              t1 \in ExtraTypes, t2 \in ExtraTypes} :
                            s2 \in squares \ {s1}} :
                     s1 \in squares}

materialBoard(white, black) ==
    placed({<<<<7, 4>>, Piece("king", WHITE, TRUE)>>,
            <<<<0, 4>>, Piece("king", BLACK, TRUE)>>} \cup white \cup black)

InitMaterial ==
    /\ \E white \in extraPieces(WhiteExtraSquares, WHITE),
          black \in extraPieces(BlackExtraSquares, BLACK) :
          board = materialBoard(white, black)
    /\ enPassantTarget = NoTarget
    /\ currentPlayer = WHITE
    /\ gameStatus = "ongoing"
    /\ capturedPieces = [white |-> <<>>, black |-> <<>>]
    /\ movesSinceLastCaptureOrPawn = 0
    /\ positionHistory = <<>>
    /\ gameHistory = <<>>
    /\ historyIndex = -1
    /\ laserPointerCount = 3
    /\ boneCount = 3
    /\ isLaserPointerActive = FALSE
    /\ isBoneActive = FALSE
    /\ promotion = NoPromotion
    /\ gameSettings = DefaultSettings
    /\ botColor = WHITE
    /\ isBotThinking = FALSE
    /\ botTimer = NoTimer
    /\ forceTimer = NoTimer
    /\ moveCompleted = FALSE
    /\ saved = NoSave
    /\ plies = 0
    /\ last = [kind |-> "init", returned |-> FALSE]

\* one call hasInsufficientMaterial(board)
CallHasInsufficientMaterial ==
    /\ plies < MaxMaterialCalls
    /\ last' = [kind |-> "hasInsufficientMaterial",
                returned |-> hasInsufficientMaterial(board)]
    /\ plies' = plies + 1
    /\ UNCHANGED <<board, currentPlayer, enPassantTarget, gameStatus,
                   capturedPieces, movesSinceLastCaptureOrPawn,
                   positionHistory, gameHistory, historyIndex,
                   laserPointerCount, boneCount, isLaserPointerActive,
                   isBoneActive, promotion, gameSettings, botColor,
                   isBotThinking, botTimer, forceTimer, moveCompleted, saved>>

NextMaterial == CallHasInsufficientMaterial

SpecMaterial == InitMaterial /\ [][NextMaterial]_vars

\* the squares holding the pieces of `color` other than its king
besidesKing(b, color) ==
    {p \in Pos : b[p] # null /\ b[p].color = color /\ b[p].type # "king"}

\* C21: on every board with exactly one king per side,
\* hasInsufficientMaterial returns true iff the material is king vs king,
\* king plus exactly one bishop or knight vs lone king, or king+bishop vs
\* king+bishop with both bishops on squares of equal (row+col) mod 2; king
\* and rook vs king returns false.
C21_InsufficientMaterial ==
    (last.kind = "hasInsufficientMaterial" /\ oneKingPerSide(board)) =>
        \E w \in {besidesKing(board, WHITE)}, k \in {besidesKing(board, BLACK)} :
            last.returned
            <=> \/ w \cup k = {}
                \/ /\ Cardinality(w \cup k) = 1
                   /\ \A p \in w \cup k : board[p].type \in {"bishop", "knight"}
                \/ /\ Cardinality(w) = 1 /\ Cardinality(k) = 1
                   /\ \A p \in w, q \in k :
                         /\ board[p].type = "bishop" /\ board[q].type = "bishop"
                         /\ (p[1] + p[2]) % 2 = (q[1] + q[2]) % 2

\* king and bishop each, the bishops on squares of one colour
C21_BishopsOnSameColour ==
    /\ last.kind = "hasInsufficientMaterial" /\ last.returned
    /\ besidesKing(board, WHITE) = {<<4, 0>>} /\ board[<<4, 0>>].type = "bishop"
    /\ besidesKing(board, BLACK) = {<<3, 3>>} /\ board[<<3, 3>>].type = "bishop"

\* king and bishop each, the bishops on squares of different colours
C21_BishopsOnOppositeColours ==
    /\ last.kind = "hasInsufficientMaterial" /\ ~last.returned
    /\ besidesKing(board, WHITE) = {<<4, 0>>} /\ board[<<4, 0>>].type = "bishop"
    /\ besidesKing(board, BLACK) = {<<3, 2>>} /\ board[<<3, 2>>].type = "bishop"

\* king and rook against the lone king
C21_RookSuffices ==
    /\ last.kind = "hasInsufficientMaterial" /\ ~last.returned
    /\ besidesKing(board, WHITE) = {<<4, 0>>} /\ board[<<4, 0>>].type = "rook"
    /\ besidesKing(board, BLACK) = {}

----------------------------------------------------------------------------
(* chess-rules, promotion: pawns of both sides one step from the last row; *)
(* makeMove is called with any piece onto the two edge rows (valid move or *)
(* not) and promotePawn on occupied and empty squares                      *)

MaxPromotionCalls == 2

PromotionTargets == {p \in Pos : p[1] \in {0, 7}} \cup {<<5, 2>>, <<4, 2>>}
PromotionSquares == {<<0, 0>>, <<0, 1>>, <<7, 7>>, <<7, 6>>, <<6, 2>>, <<4, 4>>}
PromotionTypes == {"queen", "rook", "bishop", "knight"}

promotionBoard ==
    placed({<<<<7, 4>>, Piece("king", WHITE, TRUE)>>,
            <<<<0, 4>>, Piece("king", BLACK, TRUE)>>,
            <<<<1, 0>>, Piece("pawn", WHITE, TRUE)>>,
            <<<<0, 1>>, Piece("rook", BLACK, TRUE)>>,
            <<<<6, 7>>, Piece("pawn", BLACK, TRUE)>>,
            <<<<7, 6>>, Piece("knight", WHITE, FALSE)>>,
            <<<<6, 2>>, Piece("pawn", WHITE, FALSE)>>})

InitPromotion ==
    /\ board = promotionBoard
    /\ enPassantTarget = NoTarget
    /\ currentPlayer = WHITE
    /\ gameStatus = "ongoing"
    /\ capturedPieces = [white |-> <<>>, black |-> <<>>]
    /\ movesSinceLastCaptureOrPawn = 0
    /\ positionHistory = <<>>
    /\ gameHistory = <<>>
    /\ historyIndex = -1
    /\ laserPointerCount = 3
    /\ boneCount = 3
    /\ isLaserPointerActive = FALSE
    /\ isBoneActive = FALSE
    /\ promotion = NoPromotion
    /\ gameSettings = DefaultSettings
    /\ botColor = WHITE
    /\ isBotThinking = FALSE
    /\ botTimer = NoTimer
    /\ forceTimer = NoTimer
    /\ moveCompleted = FALSE
    /\ saved = NoSave
    /\ plies = 0
    /\ last = [kind |-> "init", from |-> <<-1, -1>>, to |-> <<-1, -1>>,
               type |-> "none", pre |-> promotionBoard, isPromotion |-> FALSE,
               promotionPosition |-> <<-1, -1>>]

\* one call makeMove(board, from, to) of a piece to another square
CallMakeMoveToEdge(from, to) ==
    /\ plies < MaxPromotionCalls
    /\ board[from] # null /\ from # to
    /\ \E result \in {makeMove(board, enPassantTarget, from, to)} :
          /\ board' = result.newBoard
          /\ enPassantTarget' = result.enPassantTarget
          /\ last' = [kind |-> "makeMove", from |-> from, to |-> to,
                      type |-> "none", pre |-> board,
                      isPromotion |-> result.isPromotion,
                      promotionPosition |-> result.promotionPosition]
    /\ plies' = plies + 1
    /\ UNCHANGED <<currentPlayer, gameStatus, capturedPieces,
                   movesSinceLastCaptureOrPawn, positionHistory, gameHistory,
                   historyIndex, laserPointerCount, boneCount,
                   isLaserPointerActive, isBoneActive, promotion, gameSettings,
                   botColor, isBotThinking, botTimer, forceTimer,
                   moveCompleted, saved>>

\* one call promotePawn(board, position, promotionType)
CallPromotePawn(position, promotionType) ==
    /\ plies < MaxPromotionCalls
    /\ board' = promotePawn(board, position, promotionType)
    /\ last' = [kind |-> "promotePawn", from |-> <<-1, -1>>, to |-> position,
                type |-> promotionType, pre |-> board, isPromotion |-> FALSE,
                promotionPosition |-> <<-1, -1>>]
    /\ plies' = plies + 1
    /\ UNCHANGED <<currentPlayer, enPassantTarget, gameStatus, capturedPieces,
                   movesSinceLastCaptureOrPawn, positionHistory, gameHistory,
                   historyIndex, laserPointerCount, boneCount,
                   isLaserPointerActive, isBoneActive, promotion, gameSettings,
                   botColor, isBotThinking, botTimer, forceTimer,
                   moveCompleted, saved>>

NextPromotion ==
    \/ \E from \in Pos, to \in PromotionTargets : CallMakeMoveToEdge(from, to)
    \/ \E position \in PromotionSquares, promotionType \in PromotionTypes :
          CallPromotePawn(position, promotionType)

SpecPromotion == InitPromotion /\ [][NextPromotion]_vars

\* C22: makeMove of a pawn onto row 0 or row 7 returns isPromotion true
\* with promotionPosition the destination, and the destination still holds
\* a pawn; promotePawn(board, square, type) returns a board that differs
\* from its input only at that square, which holds a piece of the chosen
\* type, of the same side, with hasMoved true, and returns an equal board
\* when the square is empty.
C22_PromotionIsFlaggedThenChosen ==
    /\ (/\ last.kind = "makeMove"
        /\ last.pre[last.from].type = "pawn"
        /\ last.to[1] \in {0, 7})
       => /\ last.isPromotion
          /\ last.promotionPosition = last.to
          /\ board[last.to].type = "pawn"
          /\ board[last.to].color = last.pre[last.from].color
    /\ last.kind = "promotePawn"
       => IF last.pre[last.to] = null
          THEN board = last.pre
          ELSE /\ board[last.to] = Piece(last.type, last.pre[last.to].color, TRUE)
               /\ \A p \in Pos \ {last.to} : board[p] = last.pre[p]

\* the white pawn took the rook on the last row and became a knight
C22_PromotedAfterCapture ==
    /\ last.kind = "promotePawn" /\ last.to = <<0, 1>>
    /\ last.pre[<<0, 1>>] = Piece("pawn", WHITE, TRUE)
    /\ board[<<0, 1>>] = Piece("knight", WHITE, TRUE)

\* the black pawn stepped onto the last row and is flagged, not changed
C22_PromotionFlagged ==
    /\ last.kind = "makeMove" /\ last.from = <<6, 7>> /\ last.to = <<7, 7>>
    /\ last.isPromotion /\ board[<<7, 7>>] = Piece("pawn", BLACK, TRUE)

\* promotePawn on an empty square
C22_NothingToPromote ==
    /\ last.kind = "promotePawn" /\ last.to = <<4, 4>>
    /\ last.pre[<<4, 4>>] = null /\ board = last.pre

----------------------------------------------------------------------------
(* ChessGame, loading from localStorage: a game in play on the d- and      *)
(* e-files and a stored item that is absent, not JSON, a snapshot of       *)
(* another game, or that snapshot with an ill-typed field                  *)

MaxStoragePlies == 3

StoredKinds == {"absent", "notJson", "snapshot", "emptyBoard", "catsToMove"}

\* a game saved after 1. Nf3 with one bone used
storedSnapshot ==
    [present |-> TRUE, board |-> knightOut, currentPlayer |-> BLACK,
     capturedPieces |-> [white |-> <<>>, black |-> <<>>], gameStatus |-> "ongoing",
     gameSettings |-> DefaultSettings, laserPointerCount |-> 3, boneCount |-> 2,
     gameHistory |-> <<>>, historyIndex |-> -1, enPassantTarget |-> NoTarget,
     movesSinceLastCaptureOrPawn |-> 1,
     positionHistory |-> <<boardToString(knightOut)>>]

\* "board": [] as JSON.parse returns it: an array without rows
emptyArray == [p \in {} |-> null]

storedValue(kind) ==
    CASE kind = "absent" -> NoSave
      [] kind = "notJson" -> [present |-> TRUE, text |-> "catsdogs"]
      [] kind = "snapshot" -> storedSnapshot
      [] kind = "emptyBoard" -> [storedSnapshot EXCEPT !.board = emptyArray]
      [] kind = "catsToMove" -> [storedSnapshot EXCEPT !.currentPlayer = "cats"]

\* JSON.parse(saved) succeeds
parses(stored) == "board" \in DOMAIN stored

\* the render and its click handlers work on an 8x8 board and a side to move
renders == DOMAIN board = Pos /\ currentPlayer \in Colors

\* the in-memory game
inMemory ==
    [board |-> board, currentPlayer |-> currentPlayer,
     capturedPieces |-> capturedPieces, gameHistory |-> gameHistory,
     historyIndex |-> historyIndex, positionHistory |-> positionHistory,
     movesSinceLastCaptureOrPawn |-> movesSinceLastCaptureOrPawn,
     laserPointerCount |-> laserPointerCount, boneCount |-> boneCount,
     enPassantTarget |-> enPassantTarget]

InitStorage ==
    /\ board = initialBoardState
    /\ enPassantTarget = NoTarget
    /\ \E kind \in StoredKinds : saved = storedValue(kind)
    /\ currentPlayer = WHITE
    /\ gameStatus = "ongoing"
    /\ capturedPieces = [white |-> <<>>, black |-> <<>>]
    /\ movesSinceLastCaptureOrPawn = 0
    /\ positionHistory = <<>>
    /\ gameHistory = <<>>
    /\ historyIndex = -1
    /\ laserPointerCount = 3
    /\ boneCount = 3
    /\ isLaserPointerActive = FALSE
    /\ isBoneActive = FALSE
    /\ promotion = NoPromotion
    /\ gameSettings = DefaultSettings
    /\ botColor = WHITE
    /\ isBotThinking = FALSE
    /\ botTimer = NoTimer
    /\ forceTimer = NoTimer
    /\ moveCompleted = FALSE
    /\ plies = 0
    /\ last = [kind |-> "init", returned |-> FALSE, pre |-> inMemory]

\* a move of the game in memory
PlayStoredGame(from, to) ==
    /\ plies < MaxStoragePlies
    /\ renders
    /\ PlayMove(from, to)

\* loadGameFromStorage on the stored item, up to its return
LoadStored ==
    /\ plies < MaxStoragePlies
    /\ IF saved.present /\ parses(saved)
       THEN \E s \in {loadedGame(saved)} :
               /\ board' = s.board
               /\ currentPlayer' = s.currentPlayer
               /\ capturedPieces' = s.capturedPieces
               /\ gameStatus' = s.gameStatus
               /\ gameSettings' = s.gameSettings
               /\ laserPointerCount' = s.laserPointerCount
               /\ boneCount' = s.boneCount
               /\ gameHistory' = s.gameHistory
               /\ historyIndex' = s.historyIndex
               /\ movesSinceLastCaptureOrPawn' = s.movesSinceLastCaptureOrPawn
               /\ positionHistory' = s.positionHistory
               /\ enPassantTarget' = s.enPassantTarget
               /\ last' = [kind |-> "loadGameFromStorage", returned |-> TRUE,
                           pre |-> inMemory]
       ELSE /\ last' = [kind |-> "loadGameFromStorage", returned |-> FALSE,
                        pre |-> inMemory]
            /\ UNCHANGED <<board, currentPlayer, capturedPieces, gameStatus,
                           gameSettings, laserPointerCount, boneCount, gameHistory,
                           historyIndex, movesSinceLastCaptureOrPawn,
                           positionHistory, enPassantTarget>>
    /\ plies' = plies + 1
    /\ UNCHANGED <<isLaserPointerActive, isBoneActive, promotion, botColor,
                   isBotThinking, botTimer, forceTimer, moveCompleted, saved>>

NextStorage ==
    \/ \E from \in GameSquares, to \in GameSquares : PlayStoredGame(from, to)
    \/ LoadStored

SpecStorage == InitStorage /\ [][NextStorage]_vars

\* C23: loadGameFromStorage either applies a complete, well-formed snapshot
\* and returns true, or returns false and leaves every in-memory game
\* variable unchanged; a stored value that parses as JSON but has missing
\* or ill-typed fields is never partially applied.
C23_LoadIsAllOrNothing ==
    last.kind = "loadGameFromStorage" =>
        IF last.returned
        THEN /\ DOMAIN board = Pos
             /\ currentPlayer \in Colors
        ELSE inMemory = last.pre

----------------------------------------------------------------------------
(* Saving and loading, checked under Spec *)

\* C24: saving the game to storage and immediately loading it restores
\* board, side to move, captured lists, en-passant target, half-move
\* clock, position history, undo history and undo-history index to exactly
\* the saved values, for every reachable game state (including an
\* undo-history index of 0).
C24_SaveLoadRoundTrip ==
    (last.kind = "load" /\ last.prevKind = "save") =>
        /\ board = saved.board
        /\ currentPlayer = saved.currentPlayer
        /\ capturedPieces = saved.capturedPieces
        /\ enPassantTarget = saved.enPassantTarget
        /\ movesSinceLastCaptureOrPawn = saved.movesSinceLastCaptureOrPawn
        /\ positionHistory = saved.positionHistory
        /\ gameHistory = saved.gameHistory
        /\ historyIndex = saved.historyIndex

----------------------------------------------------------------------------
(* The first move of a new game, checked under Spec *)

\* C25: after startNewGame the side to move is White in every game mode;
\* in player-vs-bot mode where the human chose White the first move of the
\* game is made by the human, the bot does not move before it.
C25_WhiteMovesFirst ==
    /\ last.kind = "new" => currentPlayer = WHITE
    /\ (/\ last.kind \in {"bot", "force"}
        /\ last.prevKind = "new"
        /\ gameSettings.gameMode = "pvbot")
       => gameSettings.playerColor # "white"

----------------------------------------------------------------------------
(* chess-logic, getValidMoves on its own, on the boards of InitCheck: a    *)
(* king, one opposing piece of any type on any square and, possibly, a     *)
(* knight of the king's side next to the king                              *)

MaxLogicCalls == 1

\* an origin square without a piece on some boards of the family
EmptyOrigins == {<<2, 6>>}

\* one call getValidMoves(board, from) on the converted board
CallGetValidMoves(from) ==
    /\ plies < MaxLogicCalls
    /\ last' = [kind |-> "getValidMoves", from |-> from,
                returned |-> getValidMoves(convertToLogicBoard(board), from)]
    /\ plies' = plies + 1
    /\ UNCHANGED <<board, currentPlayer, enPassantTarget, gameStatus,
                   capturedPieces, movesSinceLastCaptureOrPawn,
                   positionHistory, gameHistory, historyIndex,
                   laserPointerCount, boneCount, isLaserPointerActive,
                   isBoneActive, promotion, gameSettings, botColor,
                   isBotThinking, botTimer, forceTimer, moveCompleted, saved>>

NextLogic ==
    \E from \in {p \in Pos : board[p] # null} \cup EmptyOrigins : CallGetValidMoves(from)

SpecLogic == InitCheck /\ [][NextLogic]_vars

\* C26: each destination returned by getValidMoves has row and column in
\* 0..7 and is not occupied by a piece of the moving piece's own side; for
\* an empty origin square the result is empty.
C26_DestinationsOnBoardNotOwn ==
    last.kind = "getValidMoves" =>
        /\ \A to \in last.returned :
              /\ to[1] \in 0..7 /\ to[2] \in 0..7
              /\ board[to] = null \/ board[to].color # board[last.from].color
        /\ board[last.from] = null => last.returned = {}

\* a knight in the corner has its two jumps
C26_KnightInCorner ==
    /\ last.kind = "getValidMoves" /\ last.from = <<7, 7>>
    /\ board[<<7, 7>>].type = "knight"
    /\ last.returned = {<<5, 6>>, <<6, 5>>}

\* a king with a knight of its side next to it does not move onto it
C26_KingBesideOwnKnight ==
    /\ last.kind = "getValidMoves" /\ last.from = <<4, 3>>
    /\ board[<<4, 3>>] = Piece("king", WHITE, TRUE)
    /\ board[<<4, 4>>] = Piece("knight", WHITE, TRUE)
    /\ <<4, 4>> \notin last.returned /\ <<3, 3>> \in last.returned

\* a pawn on its last row has no square ahead
C26_PawnOnLastRow ==
    /\ last.kind = "getValidMoves" /\ last.from = <<0, 6>>
    /\ board[<<0, 6>>] = Piece("pawn", WHITE, TRUE)
    /\ last.returned = {}

\* an empty origin square
C26_EmptyOrigin ==
    /\ last.kind = "getValidMoves" /\ board[last.from] = null
    /\ last.returned = {}


\* C27: a call of calculateBotMove leaves the shared en-passant target as
\* it was before the call, so the returned move is executed under the
\* target under which isValidMove accepted it.
C27_BotCallKeepsEnPassantTarget ==
    last.kind = "calculateBotMove" => enPassantTarget = last.target

----------------------------------------------------------------------------
(* chess-logic: game end, and the order in which getValidMoves lists the   *)
(* destinations of a piece                                                 *)

logicIsCheckmate(lb, player) ==
    isInCheck(lb, player) /\ getAllLegalMoves(lb, player) = {}

logicIsStalemate(lb, player) ==
    ~isInCheck(lb, player) /\ getAllLegalMoves(lb, player) = {}

rookDirections == << <<1, 0>>, <<-1, 0>>, <<0, 1>>, <<0, -1>> >>
bishopDirections == << <<1, 1>>, <<1, -1>>, <<-1, 1>>, <<-1, -1>> >>
knightOffsets ==
    << <<-2, -1>>, <<-2, 1>>, <<-1, -2>>, <<-1, 2>>,
       <<1, -2>>, <<1, 2>>, <<2, -1>>, <<2, 1>> >>
kingOffsets ==
    << <<-1, -1>>, <<-1, 0>>, <<-1, 1>>, <<0, -1>>,
       <<0, 1>>, <<1, -1>>, <<1, 0>>, <<1, 1>> >>

\* the squares along the directions, direction by direction and outwards
slideSquares(from, directions) ==
    [i \in 1..(7 * Len(directions)) |->
        <<from[1] + (((i - 1) % 7) + 1) * directions[(i - 1) \div 7 + 1][1],
          from[2] + (((i - 1) % 7) + 1) * directions[(i - 1) \div 7 + 1][2]>>]

stepSquares(from, offsets) ==
    [i \in 1..Len(offsets) |-> <<from[1] + offsets[i][1], from[2] + offsets[i][2]>>]

\* the squares the move generator of the piece looks at, in its order; the
\* destinations getValidMoves returns are those of them it accepts
candidateSquares(piece, from) ==
    CASE piece.type = "pawn" ->
             LET direction == IF piece.color = "dogs" THEN -1 ELSE 1
             IN << <<from[1] + direction, from[2]>>,
                   <<from[1] + 2 * direction, from[2]>>,
                   <<from[1] + direction, from[2] - 1>>,
                   <<from[1] + direction, from[2] + 1>> >>
      [] piece.type = "rook" -> slideSquares(from, rookDirections)
      [] piece.type = "knight" -> stepSquares(from, knightOffsets)
      [] piece.type = "bishop" -> slideSquares(from, bishopDirections)
      [] piece.type = "queen" -> slideSquares(from, rookDirections \o bishopDirections)
      [] piece.type = "king" -> stepSquares(from, kingOffsets)
      [] OTHER -> <<>>

----------------------------------------------------------------------------
(* the searches over chess-logic boards: evaluation and clock              *)

\* stands for the Infinity of the searches: beyond every evaluation
Infinity == 1000000

\* v + bonus in floating point: an infinite value stays infinite
plus(v, bonus) == IF v = Infinity \/ v = -Infinity THEN v ELSE v + bonus

aiPieceScoreAt(lb, aiPlayer, p) ==
    LET piece == lb[p]
        adjustedRow == IF piece.color = "dogs" THEN p[1] ELSE 7 - p[1]
        totalValue == PIECE_VALUES[piece.type]
                      + (IF piece.type = "pawn"
                         THEN PAWN_POSITION_BONUS[adjustedRow + 1][p[2] + 1] ELSE 0)
    IN IF piece = null THEN 0
       ELSE IF piece.color = aiPlayer THEN totalValue ELSE -totalValue

aiRowScore(lb, aiPlayer, row) ==
    aiPieceScoreAt(lb, aiPlayer, <<row, 0>>) + aiPieceScoreAt(lb, aiPlayer, <<row, 1>>)
    + aiPieceScoreAt(lb, aiPlayer, <<row, 2>>) + aiPieceScoreAt(lb, aiPlayer, <<row, 3>>)
    + aiPieceScoreAt(lb, aiPlayer, <<row, 4>>) + aiPieceScoreAt(lb, aiPlayer, <<row, 5>>)
    + aiPieceScoreAt(lb, aiPlayer, <<row, 6>>) + aiPieceScoreAt(lb, aiPlayer, <<row, 7>>)

aiEvaluateBoard(lb, aiPlayer) ==
    aiRowScore(lb, aiPlayer, 0) + aiRowScore(lb, aiPlayer, 1)
    + aiRowScore(lb, aiPlayer, 2) + aiRowScore(lb, aiPlayer, 3)
    + aiRowScore(lb, aiPlayer, 4) + aiRowScore(lb, aiPlayer, 5)
    + aiRowScore(lb, aiPlayer, 6) + aiRowScore(lb, aiPlayer, 7)

\* checkTimeout reporting the expiry once only
checkTimeoutOnce(expiry, calls) == expiry # 0 /\ calls = expiry

\* The clock: the budget runs out at some moment of the search, and
\* checkTimeout reports it from the first call after that moment on.  expiry
\* is the number of that call, counted from resetTimeout (0: the budget
\* lasts); calls is the number of the call being made.
checkTimeout(expiry, calls) == expiry # 0 /\ calls >= expiry

----------------------------------------------------------------------------
(* the quick search: pseudo-legal moves, depth 2                           *)

\* a quick move is the number sq * 64 + i, sq the origin square in scan order
\* and i the place of the destination among the candidate squares of the
\* piece, so that ascending numbers are the order of getQuickMoves
quickFrom(k) == SquareOf(k \div 64)
quickTo(lb, k) == candidateSquares(lb[quickFrom(k)], quickFrom(k))[(k % 64) + 1]

\* the numbers of a set in ascending order
ascending(S) ==
    [i \in 1..Cardinality(S) |->
        CHOOSE k \in S : Cardinality({j \in S : j < k}) = i - 1]

getQuickMoves(lb, player) ==
    ascending(UNION {
        UNION {{(from[1] * 8 + from[2]) * 64 + (i - 1) :
                   i \in {j \in DOMAIN squares : squares[j] \in validMoves}} :
               squares \in {candidateSquares(lb[from], from)},
               validMoves \in {getValidMoves(lb, from)}} :
        from \in {p \in Pos : lb[p] # null /\ lb[p].color = player}})

\* makeMove for a quick move
quickMakeMove(lb, k) == logicMakeMove(lb, quickFrom(k), quickTo(lb, k))

RECURSIVE quickMinimax(_, _, _, _, _, _, _, _, _)
RECURSIVE quickMoveLoop(_, _, _, _, _, _, _, _, _)

\* one pass of the loop of minimax, for limitedMoves[i].  s holds alpha, beta,
\* best (maxEval or minEval), the counters, cut (some timeout check ended
\* this loop or a node below it early) and done (the loop was left).
quickMoveStep(lb, limitedMoves, i, depth, isMaximizing, aiPlayer, expiry, s) ==
    IF s.done THEN s
    ELSE IF checkTimeout(expiry, s.calls + 1)
    THEN [s EXCEPT !.calls = s.calls + 1, !.cut = TRUE, !.done = TRUE]
    ELSE Only({
        IF isMaximizing
        THEN [alpha |-> Max(s.alpha, r.value), beta |-> s.beta,
              best |-> Max(s.best, r.value), calls |-> r.calls, nodes |-> r.nodes,
              cut |-> s.cut \/ r.cut, done |-> s.beta <= Max(s.alpha, r.value)]
        ELSE [alpha |-> s.alpha, beta |-> Min(s.beta, r.value),
              best |-> Min(s.best, r.value), calls |-> r.calls, nodes |-> r.nodes,
              cut |-> s.cut \/ r.cut, done |-> Min(s.beta, r.value) <= s.alpha] :
        r \in {Only({quickMinimax(newBoard, depth - 1, ~isMaximizing, s.alpha, s.beta,
                                  aiPlayer, expiry, s.calls + 1, s.nodes) :
                     newBoard \in {quickMakeMove(lb, limitedMoves[i])}})}})

\* the passes for limitedMoves[lo] to limitedMoves[hi], in this order
quickMoveLoop(lb, limitedMoves, lo, hi, depth, isMaximizing, aiPlayer, expiry, s) ==
    IF lo = hi
    THEN quickMoveStep(lb, limitedMoves, lo, depth, isMaximizing, aiPlayer, expiry, s)
    ELSE Only({quickMoveLoop(lb, limitedMoves, (lo + hi) \div 2 + 1, hi, depth,
                             isMaximizing, aiPlayer, expiry, s1) :
               s1 \in {quickMoveLoop(lb, limitedMoves, lo, (lo + hi) \div 2, depth,
                                     isMaximizing, aiPlayer, expiry, s)}})

\* minimax of the quick search; calls and nodes are the numbers of
\* checkTimeout calls and of nodes before the call.  The result holds the
\* value returned, the two counters after the call and cut.
quickMinimax(lb, depth, isMaximizing, alpha, beta, aiPlayer, expiry, calls, nodes) ==
    LET checked == (nodes + 1) % 20 = 0
        calls1 == IF checked THEN calls + 1 ELSE calls
        sideToMove == IF isMaximizing THEN aiPlayer
                      ELSE IF aiPlayer = "cats" THEN "dogs" ELSE "cats"
    IN IF checked /\ checkTimeout(expiry, calls1)
       THEN [value |-> aiEvaluateBoard(lb, aiPlayer), calls |-> calls1,
             nodes |-> nodes + 1, cut |-> depth # 0]
       ELSE IF depth = 0
       THEN [value |-> aiEvaluateBoard(lb, aiPlayer), calls |-> calls1,
             nodes |-> nodes + 1, cut |-> FALSE]
       ELSE Only({
           IF Len(moves) = 0
           THEN [value |-> IF logicIsCheckmate(lb, sideToMove)
                           THEN (IF isMaximizing THEN -50000 + depth ELSE 50000 - depth)
                           ELSE 0,
                 calls |-> calls1, nodes |-> nodes + 1, cut |-> FALSE]
           ELSE Only({[value |-> s.best, calls |-> s.calls, nodes |-> s.nodes,
                       cut |-> s.cut] :
                      s \in {quickMoveLoop(lb, moves, 1, Min(Len(moves), 20), depth,
                                 isMaximizing, aiPlayer, expiry,
                                 [alpha |-> alpha, beta |-> beta,
                                  best |-> IF isMaximizing THEN -Infinity ELSE Infinity,
                                  calls |-> calls1, nodes |-> nodes + 1,
                                  cut |-> FALSE, done |-> FALSE])}}) :
           moves \in {getQuickMoves(lb, sideToMove)}})

\* one pass of the loop of findBestMove, for moves[i].  s holds bestMove,
\* bestValue, the counters, done (the loop was left) and evaluated: for every
\* root move handed to minimax, the value minimax returned, the value of the
\* move and whether a timeout check cut its evaluation.
quickRootStep(lb, moves, i, aiPlayer, expiry, s) ==
    IF s.done THEN s
    ELSE IF checkTimeout(expiry, s.calls + 1)
    THEN [s EXCEPT !.calls = s.calls + 1, !.done = TRUE]
    ELSE Only({
        [bestMove |-> IF moveValue > s.bestValue THEN moves[i] ELSE s.bestMove,
         bestValue |-> IF moveValue > s.bestValue THEN moveValue ELSE s.bestValue,
         calls |-> r.calls, nodes |-> r.nodes, done |-> FALSE,
         evaluated |-> Append(s.evaluated,
                              [move |-> moves[i], returned |-> r.value,
                               value |-> moveValue, cut |-> r.cut])] :
        <<r, moveValue>> \in
            {<<m, IF capturedPiece # null
                  THEN plus(m.value, PIECE_VALUES[capturedPiece.type] \div 5)
                  ELSE m.value>> :
             m \in {Only({quickMinimax(newBoard, 1, FALSE, -Infinity, Infinity,
                                       aiPlayer, expiry, s.calls + 1, s.nodes) :
                          newBoard \in {quickMakeMove(lb, moves[i])}})},
             capturedPiece \in {lb[quickTo(lb, moves[i])]}}})

RECURSIVE quickRootLoop(_, _, _, _, _, _, _)

\* the passes for moves[lo] to moves[hi], in this order
quickRootLoop(lb, moves, lo, hi, aiPlayer, expiry, s) ==
    IF lo = hi
    THEN quickRootStep(lb, moves, lo, aiPlayer, expiry, s)
    ELSE Only({quickRootLoop(lb, moves, (lo + hi) \div 2 + 1, hi, aiPlayer, expiry, s1) :
               s1 \in {quickRootLoop(lb, moves, lo, (lo + hi) \div 2, aiPlayer,
                                     expiry, s)}})

\* findBestMove of the quick search: the move returned (<<from, to>>, or
\* <<>> for null), its number and what the search did
quickSearch(lb, aiPlayer, expiry) ==
    Only({IF Len(allMoves) = 0
          THEN [move |-> <<>>, key |-> -1, calls |-> 0, nodes |-> 0,
                evaluated |-> <<>>]
          ELSE Only({[move |-> <<quickFrom(s.bestMove), quickTo(lb, s.bestMove)>>,
                      key |-> s.bestMove, calls |-> s.calls, nodes |-> s.nodes,
                      evaluated |-> s.evaluated] :
                     s \in {quickRootLoop(lb, allMoves, 1, Min(Len(allMoves), 30),
                                aiPlayer, expiry,
                                [bestMove |-> allMoves[1], bestValue |-> -Infinity,
                                 calls |-> 0, nodes |-> 0, done |-> FALSE,
                                 evaluated |-> <<>>])}}) :
          allMoves \in {getQuickMoves(lb, aiPlayer)}})

quickFindBestMove(lb, aiPlayer, expiry) == quickSearch(lb, aiPlayer, expiry).move

\* the adapter: the board converted, the quick search, the positions copied
adapterSearch(b, color, expiry) ==
    Only({quickSearch(logicBoard, IF color = WHITE THEN "dogs" ELSE "cats", expiry) :
          logicBoard \in {convertToLogicBoard(b)}})

adapterCalculateBotMove(b, color, expiry) == adapterSearch(b, color, expiry).move


----------------------------------------------------------------------------
(* the quick search on its own: the adapter called once on boards with the *)
(* two kings and some of a black queen, rook and pawn and a white rook, the *)
(* budget running out at any of the first checks or not at all             *)

MaxQuickCalls == 1

\* the latest check at which the budget runs out
MaxExpiry == 24

quickBoard(queen, rook, pawn, whiteRook) ==
    placed({<<<<7, 4>>, Piece("king", WHITE, TRUE)>>,
            <<<<2, 7>>, Piece("king", BLACK, TRUE)>>}
           \cup (IF queen THEN {<<<<0, 0>>, Piece("queen", BLACK, TRUE)>>} ELSE {})
           \cup (IF rook THEN {<<<<1, 4>>, Piece("rook", BLACK, TRUE)>>} ELSE {})
           \cup (IF pawn THEN {<<<<6, 4>>, Piece("pawn", BLACK, TRUE)>>} ELSE {})
           \cup (IF whiteRook THEN {<<<<7, 0>>, Piece("rook", WHITE, FALSE)>>} ELSE {}))

InitQuick ==
    /\ \E queen \in BOOLEAN, rook \in BOOLEAN, pawn \in BOOLEAN, whiteRook \in BOOLEAN :
          board = quickBoard(queen, rook, pawn, whiteRook)
    /\ enPassantTarget = NoTarget
    /\ plies = 0
    /\ last = [kind |-> "init"]
    /\ currentPlayer = WHITE
    /\ gameStatus = "ongoing"
    /\ capturedPieces = [white |-> <<>>, black |-> <<>>]
    /\ movesSinceLastCaptureOrPawn = 0
    /\ positionHistory = <<>>
    /\ gameHistory = <<>>
    /\ historyIndex = -1
    /\ laserPointerCount = 3
    /\ boneCount = 3
    /\ isLaserPointerActive = FALSE
    /\ isBoneActive = FALSE
    /\ promotion = NoPromotion
    /\ gameSettings = DefaultSettings
    /\ botColor = WHITE
    /\ isBotThinking = FALSE
    /\ botTimer = NoTimer
    /\ forceTimer = NoTimer
    /\ moveCompleted = FALSE
    /\ saved = NoSave

\* one call of the adapter for the colour, the budget running out at the
\* check numbered expiry
CallAdapter(color, expiry) ==
    /\ plies < MaxQuickCalls
    /\ \E search \in {adapterSearch(board, color, expiry)} :
          last' = [kind |-> "adapterCalculateBotMove", side |-> color,
                   expiry |-> expiry, returned |-> search.move,
                   key |-> search.key, evaluated |-> search.evaluated,
                   calls |-> search.calls]
    /\ plies' = plies + 1
    /\ UNCHANGED <<board, currentPlayer, enPassantTarget, gameStatus,
                   capturedPieces, movesSinceLastCaptureOrPawn,
                   positionHistory, gameHistory, historyIndex,
                   laserPointerCount, boneCount, isLaserPointerActive,
                   isBoneActive, promotion, gameSettings, botColor,
                   isBotThinking, botTimer, forceTimer, moveCompleted, saved>>

NextQuick ==
    \E color \in Colors, expiry \in 0..MaxExpiry : CallAdapter(color, expiry)

SpecQuick == InitQuick /\ [][NextQuick]_vars

\* C28: every move the quick search returns through the adapter is legal
\* for the bot's side: it is a move of a piece of that side that does not
\* leave the side's own king in check.
C28_QuickMoveIsLegal ==
    (last.kind = "adapterCalculateBotMove" /\ last.returned # <<>>) =>
        \E logicBoard \in {convertToLogicBoard(board)} :
            MoveKey(last.returned[1], last.returned[2])
                \in getAllLegalMoves(logicBoard,
                                     IF last.side = WHITE THEN "dogs" ELSE "cats")


\* the root moves whose evaluation no timeout check cut short
completedRootMoves == {i \in DOMAIN last.evaluated : ~last.evaluated[i].cut}

\* C30: when the budget runs out during the quick search, the move returned
\* is the highest-valued of the root moves whose evaluation finished before
\* (the first root move when none finished), a root move whose evaluation
\* was cut short is not preferred to a finished one, and minimax returns
\* neither +Infinity nor -Infinity to the root.
C30_TimeoutReturnsBestCompleted ==
    (/\ last.kind = "adapterCalculateBotMove"
     /\ last.expiry # 0 /\ last.calls >= last.expiry
     /\ last.returned # <<>>) =>
        /\ \A i \in DOMAIN last.evaluated :
               last.evaluated[i].returned \notin {Infinity, -Infinity}
        /\ IF completedRootMoves = {}
           THEN \A logicBoard \in {convertToLogicBoard(board)} :
                    last.key = getQuickMoves(logicBoard,
                                   IF last.side = WHITE THEN "dogs" ELSE "cats")[1]
           ELSE \E i \in completedRootMoves :
                    /\ last.evaluated[i].move = last.key
                    /\ \A j \in completedRootMoves :
                           last.evaluated[j].value <= last.evaluated[i].value


----------------------------------------------------------------------------
(* chess-ai: the search over all 4096 (from, to) pairs, depth 3.  A pair is *)
(* the number MoveKey(from, to), the place of the pair in the nested loops; *)
(* the loops do nothing but count at a pair that is no legal move, so they  *)
(* are followed from legal move to legal move.                              *)

\* the legal moves of the player in the order of the nested loops
aiLegalMoves(lb, player) == ascending(getAllLegalMoves(lb, player))

\* the checks of a counter against a period while it goes from n to n + g
checksWithin(n, g, period) == (n + g) \div period - n \div period

\* the call of checkTimeout, among those numbered calls + 1 onwards, that
\* reports the expiry first
firstReport(expiry, calls) == IF calls + 1 >= expiry THEN 1 ELSE expiry - calls

RECURSIVE aiMinimax(_, _, _, _, _, _, _, _, _)
RECURSIVE aiMoveLoop(_, _, _, _, _, _, _, _, _)

\* the step of minimax leaving a maximizing loop after its first legal move
aiMoveStepLeavingEarly(lb, moves, i, depth, isMaximizing, aiPlayer, expiry, s) ==
    IF s.done THEN s
    ELSE Only({
        IF checks >= 1 /\ checkTimeout(expiry, s.calls + checks)
        THEN [s EXCEPT !.calls = s.calls + firstReport(expiry, s.calls),
                       !.nodes = (s.nodes \div 100 + firstReport(expiry, s.calls)) * 100,
                       !.done = TRUE]
        ELSE IF i > Len(moves)
        THEN [s EXCEPT !.calls = s.calls + checks, !.nodes = s.nodes + gap,
                       !.done = TRUE]
        ELSE Only({
            IF isMaximizing
            THEN [cursor |-> moves[i] + 1, alpha |-> Max(s.alpha, r.value),
                  beta |-> s.beta, best |-> Max(s.best, r.value), found |-> TRUE,
                  calls |-> r.calls, nodes |-> r.nodes,
                  done |-> TRUE]
            ELSE [cursor |-> moves[i] + 1, alpha |-> s.alpha,
                  beta |-> Min(s.beta, r.value), best |-> Min(s.best, r.value),
                  found |-> TRUE, calls |-> r.calls, nodes |-> r.nodes,
                  done |-> Min(s.beta, r.value) <= s.alpha] :
            r \in {Only({aiMinimax(newBoard, depth - 1, ~isMaximizing, s.alpha, s.beta,
                                   aiPlayer, expiry, s.calls + checks, s.nodes + gap) :
                         newBoard \in {logicMakeMove(lb, MoveFrom(moves[i]),
                                                     MoveTo(moves[i]))}})}}) :
        <<gap, checks>> \in
            {<<g, checksWithin(s.nodes, g, 100)>> :
             g \in {IF i > Len(moves) THEN 4096 - s.cursor
                    ELSE moves[i] - s.cursor + 1}}})

\* the loops of minimax from the pair numbered s.cursor up to the legal move
\* moves[i] and the search below it, or up to the last pair when i is beyond
\* the moves.  s holds alpha, beta, best (maxEval or minEval), found
\* (validMoveFound), the counters and done (minimax returned from the loops).
aiMoveStep(lb, moves, i, depth, isMaximizing, aiPlayer, expiry, s) ==
    IF s.done THEN s
    ELSE Only({
        IF checks >= 1 /\ checkTimeout(expiry, s.calls + checks)
        THEN [s EXCEPT !.calls = s.calls + firstReport(expiry, s.calls),
                       !.nodes = (s.nodes \div 100 + firstReport(expiry, s.calls)) * 100,
                       !.done = TRUE]
        ELSE IF i > Len(moves)
        THEN [s EXCEPT !.calls = s.calls + checks, !.nodes = s.nodes + gap,
                       !.done = TRUE]
        ELSE Only({
            IF isMaximizing
            THEN [cursor |-> moves[i] + 1, alpha |-> Max(s.alpha, r.value),
                  beta |-> s.beta, best |-> Max(s.best, r.value), found |-> TRUE,
                  calls |-> r.calls, nodes |-> r.nodes,
                  done |-> s.beta <= Max(s.alpha, r.value)]
            ELSE [cursor |-> moves[i] + 1, alpha |-> s.alpha,
                  beta |-> Min(s.beta, r.value), best |-> Min(s.best, r.value),
                  found |-> TRUE, calls |-> r.calls, nodes |-> r.nodes,
                  done |-> Min(s.beta, r.value) <= s.alpha] :
            r \in {Only({aiMinimax(newBoard, depth - 1, ~isMaximizing, s.alpha, s.beta,
                                   aiPlayer, expiry, s.calls + checks, s.nodes + gap) :
                         newBoard \in {logicMakeMove(lb, MoveFrom(moves[i]),
                                                     MoveTo(moves[i]))}})}}) :
        <<gap, checks>> \in
            {<<g, checksWithin(s.nodes, g, 100)>> :
             g \in {IF i > Len(moves) THEN 4096 - s.cursor
                    ELSE moves[i] - s.cursor + 1}}})

\* the steps lo to hi, in this order
aiMoveLoop(lb, moves, lo, hi, depth, isMaximizing, aiPlayer, expiry, s) ==
    IF lo = hi
    THEN aiMoveStep(lb, moves, lo, depth, isMaximizing, aiPlayer, expiry, s)
    ELSE Only({aiMoveLoop(lb, moves, (lo + hi) \div 2 + 1, hi, depth, isMaximizing,
                          aiPlayer, expiry, s1) :
               s1 \in {aiMoveLoop(lb, moves, lo, (lo + hi) \div 2, depth, isMaximizing,
                                  aiPlayer, expiry, s)}})

\* minimax of chess-ai; calls and nodes are the numbers of checkTimeout calls
\* and of nodes before the call, and the result holds them after it
aiMinimax(lb, depth, isMaximizing, alpha, beta, aiPlayer, expiry, calls, nodes) ==
    IF checkTimeout(expiry, calls + 1) \/ depth = 0
    THEN [value |-> aiEvaluateBoard(lb, aiPlayer), calls |-> calls + 1, nodes |-> nodes]
    ELSE Only({
        IF inCheck /\ Len(moves) = 0
        THEN [value |-> IF isMaximizing THEN -100000 ELSE 100000,
              calls |-> calls + 1, nodes |-> nodes]
        ELSE IF Len(moves) = 0
        THEN [value |-> 0, calls |-> calls + 1, nodes |-> nodes]
        ELSE Only({[value |-> IF s.found THEN s.best
                              ELSE aiEvaluateBoard(lb, aiPlayer),
                    calls |-> s.calls, nodes |-> s.nodes] :
                   s \in {aiMoveLoop(lb, moves, 1, Len(moves) + 1, depth, isMaximizing,
                              aiPlayer, expiry,
                              [cursor |-> 0, alpha |-> alpha, beta |-> beta,
                               best |-> IF isMaximizing THEN -Infinity ELSE Infinity,
                               found |-> FALSE, calls |-> calls + 1, nodes |-> nodes,
                               done |-> FALSE])}}) :
        <<inCheck, moves>> \in
            {<<isInCheck(lb, sideToMove), aiLegalMoves(lb, sideToMove)>> :
             sideToMove \in {IF isMaximizing THEN aiPlayer
                             ELSE IF aiPlayer = "cats" THEN "dogs" ELSE "cats"}}})

\* the value of the legal move moves[i] at the root, taken into bestMove and
\* bestValue; s.calls and s.nodes are the counters before minimax is called.
\* reportedAt is the number of pairs looked at when checkTimeout reported
\* the expiry for the first time (-1: not yet); evaluated lists, for every
\* root move handed to minimax, its value and the counters around the call.
aiRootEvaluate(lb, moves, i, aiPlayer, expiry, s) ==
    Only({[cursor |-> moves[i] + 1,
           bestMove |-> IF r.value > s.bestValue THEN moves[i] ELSE s.bestMove,
           bestValue |-> IF r.value > s.bestValue THEN r.value ELSE s.bestValue,
           calls |-> r.calls, nodes |-> r.nodes, done |-> FALSE,
           checked |-> moves[i] + 1,
           reportedAt |-> IF s.reportedAt = -1 /\ checkTimeout(expiry, r.calls)
                          THEN moves[i] + 1 ELSE s.reportedAt,
           evaluated |-> Append(s.evaluated,
                                [move |-> moves[i], value |-> r.value,
                                 callsBefore |-> s.calls, callsAfter |-> r.calls,
                                 nodesBefore |-> s.nodes, nodesAfter |-> r.nodes])] :
          r \in {Only({aiMinimax(newBoard, 2, FALSE, -Infinity, Infinity, aiPlayer,
                                 expiry, s.calls, s.nodes) :
                       newBoard \in {logicMakeMove(lb, MoveFrom(moves[i]),
                                                   MoveTo(moves[i]))}})}})

\* the loops of findBestMove from the pair numbered s.cursor up to the legal
\* move moves[i] and its evaluation, or up to the last pair when i is beyond
\* the moves.  s holds bestMove (-1 for null), bestValue, the counters, the
\* pairs looked at (totalPositionsChecked) and done (the loops were left).
aiRootStep(lb, moves, i, aiPlayer, expiry, s) ==
    IF s.done THEN s
    ELSE IF checkTimeout(expiry, s.calls)
    THEN \* isTimeExpired was set below the root: the rest of the innermost loop
         IF i <= Len(moves) /\ moves[i] \div 8 = (s.cursor - 1) \div 8
                            /\ (moves[i] + 1) % 256 # 0
         THEN aiRootEvaluate(lb, moves, i, aiPlayer, expiry, s)
         ELSE [s EXCEPT !.done = TRUE,
                        !.checked = ((s.cursor - 1) \div 8) * 8 + 8]
    ELSE Only({
        IF checks >= 1 /\ checkTimeout(expiry, s.calls + checks)
        THEN [s EXCEPT !.calls = s.calls + firstReport(expiry, s.calls),
                       !.done = TRUE,
                       !.checked = (s.cursor \div 256
                                    + firstReport(expiry, s.calls)) * 256,
                       !.reportedAt = (s.cursor \div 256
                                       + firstReport(expiry, s.calls)) * 256]
        ELSE IF i > Len(moves)
        THEN [s EXCEPT !.calls = s.calls + checks, !.done = TRUE, !.checked = 4096]
        ELSE aiRootEvaluate(lb, moves, i, aiPlayer, expiry,
                            [s EXCEPT !.calls = s.calls + checks]) :
        checks \in {checksWithin(s.cursor,
                                 IF i > Len(moves) THEN 4096 - s.cursor
                                 ELSE moves[i] - s.cursor + 1, 256)}})

RECURSIVE aiRootLoop(_, _, _, _, _, _, _)

\* the steps lo to hi, in this order
aiRootLoop(lb, moves, lo, hi, aiPlayer, expiry, s) ==
    IF lo = hi
    THEN aiRootStep(lb, moves, lo, aiPlayer, expiry, s)
    ELSE Only({aiRootLoop(lb, moves, (lo + hi) \div 2 + 1, hi, aiPlayer, expiry, s1) :
               s1 \in {aiRootLoop(lb, moves, lo, (lo + hi) \div 2, aiPlayer, expiry, s)}})

\* findBestMove of chess-ai: the move returned (<<from, to>>, or <<>> for
\* null) and the counters of the search
aiSearch(lb, aiPlayer, expiry) ==
    Only({[move |-> IF s.bestMove = -1 THEN <<>>
                    ELSE <<MoveFrom(s.bestMove), MoveTo(s.bestMove)>>,
           calls |-> s.calls, nodes |-> s.nodes, checked |-> s.checked,
           reportedAt |-> s.reportedAt, evaluated |-> s.evaluated] :
          s \in UNION {{aiRootLoop(lb, moves, 1, Len(moves) + 1, aiPlayer, expiry,
                           [cursor |-> 0, bestMove |-> -1, bestValue |-> -Infinity,
                            calls |-> 0, nodes |-> 0, done |-> FALSE,
                            checked |-> 0, reportedAt |-> -1,
                            evaluated |-> <<>>])} :
                       moves \in {aiLegalMoves(lb, aiPlayer)}}})

aiFindBestMove(lb, aiPlayer, expiry) == aiSearch(lb, aiPlayer, expiry).move


----------------------------------------------------------------------------
(* chess-ai on its own: findBestMove called once on boards with the two    *)
(* kings, a white pawn and a black rook, the budget running out at any of   *)
(* the first checks or not at all                                          *)

MaxAiCalls == 1

\* the latest check at which the budget runs out
MaxAiExpiry == 14

WhiteKingSquares == {<<7, 4>>, <<0, 2>>}
WhitePawnSquares == {<<6, 0>>, <<3, 3>>}

aiBoard(whiteKing, blackKing, pawns, rook) ==
    placed({<<whiteKing, Piece("king", WHITE, TRUE)>>,
            <<blackKing, Piece("king", BLACK, TRUE)>>}
           \cup {<<p, Piece("pawn", WHITE, p[1] # 6)>> : p \in pawns}
           \cup (IF rook THEN {<<<<1, 5>>, Piece("rook", BLACK, TRUE)>>} ELSE {}))

InitAi ==
    /\ \E whiteKing \in WhiteKingSquares, blackKing \in {<<2, 7>>, <<4, 0>>},
          pawns \in SUBSET WhitePawnSquares, rook \in BOOLEAN :
          board = aiBoard(whiteKing, blackKing, pawns, rook)
    /\ enPassantTarget = NoTarget
    /\ plies = 0
    /\ last = [kind |-> "init"]
    /\ currentPlayer = WHITE
    /\ gameStatus = "ongoing"
    /\ capturedPieces = [white |-> <<>>, black |-> <<>>]
    /\ movesSinceLastCaptureOrPawn = 0
    /\ positionHistory = <<>>
    /\ gameHistory = <<>>
    /\ historyIndex = -1
    /\ laserPointerCount = 3
    /\ boneCount = 3
    /\ isLaserPointerActive = FALSE
    /\ isBoneActive = FALSE
    /\ promotion = NoPromotion
    /\ gameSettings = DefaultSettings
    /\ botColor = WHITE
    /\ isBotThinking = FALSE
    /\ botTimer = NoTimer
    /\ forceTimer = NoTimer
    /\ moveCompleted = FALSE
    /\ saved = NoSave

\* one call findBestMove(board, player) on the converted board, the budget
\* running out at the check numbered expiry
CallAiFindBestMove(color, expiry) ==
    /\ plies < MaxAiCalls
    /\ \E logicBoard \in {convertToLogicBoard(board)} :
          \E search \in {aiSearch(logicBoard,
                                  IF color = WHITE THEN "dogs" ELSE "cats", expiry)} :
              last' = [kind |-> "aiFindBestMove", side |-> color, expiry |-> expiry,
                       returned |-> search.move, calls |-> search.calls,
                       nodes |-> search.nodes, checked |-> search.checked,
                       reportedAt |-> search.reportedAt,
                       evaluated |-> search.evaluated]
    /\ plies' = plies + 1
    /\ UNCHANGED <<board, currentPlayer, enPassantTarget, gameStatus,
                   capturedPieces, movesSinceLastCaptureOrPawn,
                   positionHistory, gameHistory, historyIndex,
                   laserPointerCount, boneCount, isLaserPointerActive,
                   isBoneActive, promotion, gameSettings, botColor,
                   isBotThinking, botTimer, forceTimer, moveCompleted, saved>>

NextAi ==
    \E color \in Colors, expiry \in 0..MaxAiExpiry : CallAiFindBestMove(color, expiry)

SpecAi == InitAi /\ [][NextAi]_vars

\* C29: findBestMove of chess-ai returns a move whenever the side has a
\* legal move, wherever in the search the budget runs out.
C29_MoveWheneverLegalMoveExists ==
    (/\ last.kind = "aiFindBestMove"
     /\ \E logicBoard \in {convertToLogicBoard(board)} :
            getAllLegalMoves(logicBoard,
                             IF last.side = WHITE THEN "dogs" ELSE "cats") # {})
        => last.returned # <<>>


\* the root moves handed to minimax after checkTimeout had reported the expiry
evaluatedAfterReport ==
    {i \in DOMAIN last.evaluated : last.evaluated[i].callsBefore >= last.expiry}

\* C31: findBestMove of chess-ai returns within its 4096 pairs; once
\* checkTimeout has reported the expiry, every later call of minimax makes
\* its one timeout check, which reports the expiry again, and returns the
\* static evaluation of its board without looking at a pair, and
\* findBestMove looks at no more than 255 further pairs before it returns.
C31_ExpiryEndsSearch ==
    last.kind = "aiFindBestMove" =>
        /\ last.checked <= 4096
        /\ (last.expiry # 0 /\ last.calls >= last.expiry) =>
              /\ last.reportedAt # -1
              /\ last.checked >= last.reportedAt
              /\ last.checked - last.reportedAt <= 255
              /\ \A i \in evaluatedAfterReport :
                    \E e \in {last.evaluated[i]}, logicBoard \in {convertToLogicBoard(board)} :
                        /\ e.callsAfter = e.callsBefore + 1
                        /\ e.nodesAfter = e.nodesBefore
                        /\ e.value = aiEvaluateBoard(
                                         logicMakeMove(logicBoard, MoveFrom(e.move),
                                                       MoveTo(e.move)),
                                         IF last.side = WHITE THEN "dogs" ELSE "cats")

\* the expiry is reported below the root, and the root hands one more move to
\* minimax before it leaves its innermost loop
C31_MovesAfterReport ==
    /\ last.kind = "aiFindBestMove"
    /\ last.expiry # 0 /\ last.calls >= last.expiry
    /\ Cardinality(evaluatedAfterReport) = 1
    /\ last.checked > last.reportedAt
    /\ last.checked < 4096

\* the expiry is reported by the check of the root loop, before any legal move
C31_ReportAtRoot ==
    /\ last.kind = "aiFindBestMove"
    /\ last.expiry # 0 /\ last.reportedAt = 256 * last.expiry
    /\ last.checked = last.reportedAt
    /\ last.evaluated = <<>>


----------------------------------------------------------------------------
(* the iterative-deepening search: legal moves in the order of             *)
(* getAllLegalMoves, depths 1 to maxDepth.  A move is a quick move number. *)

\* getAllLegalMoves as the list it is: origins in scan order, destinations
\* in the order of getValidMoves
deepLegalMoves(lb, player) ==
    SelectSeq(getQuickMoves(lb, player),
              LAMBDA k : \A newBoard \in {quickMakeMove(lb, k)} :
                             ~isInCheck(newBoard, player))

deepEvaluateBoard(lb, botPlayer) == aiEvaluateBoard(lb, botPlayer)

opponentOf(player) == IF player = "cats" THEN "dogs" ELSE "cats"

RECURSIVE deepMinimax(_, _, _, _, _, _, _, _)
RECURSIVE deepMoveLoop(_, _, _, _, _, _, _, _, _)

\* one pass of a loop of minimax, for legalMoves[i].  s holds alpha, beta,
\* value, the number of checkTimeout calls made and done (the loop was left).
deepMoveStep(lb, legalMoves, i, depth, isMaximizing, botPlayer, expiry, s) ==
    IF s.done THEN s
    ELSE IF checkTimeout(expiry, s.calls + 1)
    THEN [s EXCEPT !.calls = s.calls + 1, !.done = TRUE]
    ELSE Only({
        IF isMaximizing
        THEN [alpha |-> Max(s.alpha, Max(s.value, moveValue)), beta |-> s.beta,
              value |-> Max(s.value, moveValue), calls |-> r.calls,
              done |-> s.beta <= Max(s.alpha, Max(s.value, moveValue))]
        ELSE [alpha |-> s.alpha, beta |-> Min(s.beta, Min(s.value, r.value)),
              value |-> Min(s.value, r.value), calls |-> r.calls,
              done |-> Min(s.beta, Min(s.value, r.value)) <= s.alpha] :
        <<r, moveValue>> \in UNION {
            {<<m, IF isMaximizing /\ logicIsCheckmate(newBoard, opponentOf(botPlayer))
                  THEN plus(m.value, 10000) ELSE m.value>> :
             m \in {deepMinimax(newBoard, depth - 1, s.alpha, s.beta, ~isMaximizing,
                                botPlayer, expiry, s.calls + 1)}} :
            newBoard \in {quickMakeMove(lb, legalMoves[i])}}})

\* the passes lo to hi, in this order
deepMoveLoop(lb, legalMoves, lo, hi, depth, isMaximizing, botPlayer, expiry, s) ==
    IF lo = hi
    THEN deepMoveStep(lb, legalMoves, lo, depth, isMaximizing, botPlayer, expiry, s)
    ELSE Only({deepMoveLoop(lb, legalMoves, (lo + hi) \div 2 + 1, hi, depth,
                            isMaximizing, botPlayer, expiry, s1) :
               s1 \in {deepMoveLoop(lb, legalMoves, lo, (lo + hi) \div 2, depth,
                                    isMaximizing, botPlayer, expiry, s)}})

\* minimax of the iterative-deepening search; calls is the number of
\* checkTimeout calls before the call, and the result holds it after
deepMinimax(lb, depth, alpha, beta, isMaximizing, botPlayer, expiry, calls) ==
    IF depth % 2 = 0 /\ checkTimeout(expiry, calls + 1)
    THEN [value |-> deepEvaluateBoard(lb, botPlayer), calls |-> calls + 1]
    ELSE IF depth = 0
    THEN [value |-> deepEvaluateBoard(lb, botPlayer), calls |-> calls + 1]
    ELSE Only({
        IF Len(legalMoves) = 0
        THEN [value |-> IF isInCheck(lb, sideToMove)
                        THEN (IF isMaximizing THEN -100000 - depth ELSE 100000 + depth)
                        ELSE 0,
              calls |-> calls1]
        ELSE Only({[value |-> s.value, calls |-> s.calls] :
                   s \in {deepMoveLoop(lb, legalMoves, 1, Len(legalMoves), depth,
                              isMaximizing, botPlayer, expiry,
                              [alpha |-> alpha, beta |-> beta,
                               value |-> IF isMaximizing THEN -Infinity ELSE Infinity,
                               calls |-> calls1, done |-> FALSE])}}) :
        <<sideToMove, legalMoves, calls1>> \in
            {<<p, deepLegalMoves(lb, p), IF depth % 2 = 0 THEN calls + 1 ELSE calls>> :
             p \in {IF isMaximizing THEN botPlayer ELSE opponentOf(botPlayer)}}})

\* one pass of the loop over the root moves at one depth, for legalMoves[i].
\* s holds depthBestMove, depthBestScore, the number of checkTimeout calls,
\* done (the loop was left) and evaluated: for every root move handed to
\* minimax, the value minimax returned, the bonuses added and the score.
deepRootStep(lb, legalMoves, i, depth, botPlayer, personality, expiry, s) ==
    IF s.done THEN s
    ELSE IF checkTimeout(expiry, s.calls + 1)
    THEN [s EXCEPT !.calls = s.calls + 1, !.done = TRUE]
    ELSE Only({
        [depthBestMove |-> IF rootScore > s.depthBestScore THEN legalMoves[i]
                           ELSE s.depthBestMove,
         depthBestScore |-> IF rootScore > s.depthBestScore THEN rootScore
                            ELSE s.depthBestScore,
         calls |-> r.calls, done |-> FALSE,
         evaluated |-> Append(s.evaluated,
                              [move |-> legalMoves[i], returned |-> r.value,
                               bonus |-> bonus, score |-> rootScore])] :
        <<r, bonus, rootScore>> \in UNION {UNION {
            {<<m, b, plus(-m.value, b)>> :
             m \in {deepMinimax(newBoard, depth - 1, -Infinity, Infinity, FALSE,
                                botPlayer, expiry, s.calls + 1)}} :
            b \in {(IF isInCheck(newBoard, opponentOf(botPlayer)) THEN 100 ELSE 0)
                   + (IF logicIsCheckmate(newBoard, opponentOf(botPlayer))
                      THEN 100000 ELSE 0)
                   + (IF personality = "aggressive"
                         /\ lb[quickTo(lb, legalMoves[i])] # null
                      THEN 150 ELSE 0)}} :
            newBoard \in {quickMakeMove(lb, legalMoves[i])}}})

RECURSIVE deepRootLoop(_, _, _, _, _, _, _, _, _)

\* the passes lo to hi, in this order
deepRootLoop(lb, legalMoves, lo, hi, depth, botPlayer, personality, expiry, s) ==
    IF lo = hi
    THEN deepRootStep(lb, legalMoves, lo, depth, botPlayer, personality, expiry, s)
    ELSE Only({deepRootLoop(lb, legalMoves, (lo + hi) \div 2 + 1, hi, depth,
                            botPlayer, personality, expiry, s1) :
               s1 \in {deepRootLoop(lb, legalMoves, lo, (lo + hi) \div 2, depth,
                                    botPlayer, personality, expiry, s)}})

\* one pass of the loop over the depths.  t holds bestMove, bestScore, the
\* number of checkTimeout calls, done (the loop was left) and depths: for
\* every depth begun, what its loop over the root moves came to.
deepDepthStep(lb, legalMoves, depth, botPlayer, personality, expiry, t) ==
    IF t.done THEN t
    ELSE IF checkTimeout(expiry, t.calls + 1)
    THEN [t EXCEPT !.calls = t.calls + 1, !.done = TRUE]
    ELSE Only({
        [bestMove |-> IF s.depthBestScore > t.bestScore THEN s.depthBestMove
                      ELSE t.bestMove,
         bestScore |-> IF s.depthBestScore > t.bestScore THEN s.depthBestScore
                       ELSE t.bestScore,
         calls |-> s.calls + 1,
         done |-> checkTimeout(expiry, s.calls + 1),
         depths |-> Append(t.depths,
                           [depth |-> depth, evaluated |-> s.evaluated,
                            depthBestMove |-> s.depthBestMove,
                            depthBestScore |-> s.depthBestScore])] :
        s \in {deepRootLoop(lb, legalMoves, 1, Len(legalMoves), depth, botPlayer,
                            personality, expiry,
                            [depthBestMove |-> legalMoves[1],
                             depthBestScore |-> -Infinity,
                             calls |-> t.calls + 1, done |-> FALSE,
                             evaluated |-> <<>>])}})

RECURSIVE deepDepthLoop(_, _, _, _, _, _, _, _)

\* the passes for the depths from depth to maxDepth
deepDepthLoop(lb, legalMoves, depth, maxDepth, botPlayer, personality, expiry, t) ==
    IF depth > maxDepth THEN t
    ELSE Only({deepDepthLoop(lb, legalMoves, depth + 1, maxDepth, botPlayer,
                             personality, expiry, t1) :
               t1 \in {deepDepthStep(lb, legalMoves, depth, botPlayer, personality,
                                     expiry, t)}})

\* calculateBotMove of the iterative-deepening search: the move returned
\* (<<from, to>>, or <<>> for null), its number and the course of the search
deepSearch(lb, botPlayer, maxDepth, personality, expiry) ==
    Only({
        IF Len(legalMoves) = 0
        THEN [move |-> <<>>, key |-> -1, calls |-> 0, depths |-> <<>>]
        ELSE Only({[move |-> <<quickFrom(t.bestMove), quickTo(lb, t.bestMove)>>,
                    key |-> t.bestMove, calls |-> t.calls, depths |-> t.depths] :
                   t \in {deepDepthLoop(lb, legalMoves, 1, maxDepth, botPlayer,
                              personality, expiry,
                              [bestMove |-> legalMoves[1], bestScore |-> -Infinity,
                               calls |-> 0, done |-> FALSE, depths |-> <<>>])}}) :
        legalMoves \in {deepLegalMoves(lb, botPlayer)}})

deepCalculateBotMove(lb, botPlayer, maxDepth, personality, expiry) ==
    deepSearch(lb, botPlayer, maxDepth, personality, expiry).move


----------------------------------------------------------------------------
(* the iterative-deepening search on its own: calculateBotMove called once *)
(* on boards with the two kings, a white rook, a black knight and a white   *)
(* pawn, with maxDepth and personality of the caller's choice              *)

MaxDeepCalls == 1

\* the greatest maxDepth handed to calculateBotMove
MaxDeepDepth == 3

\* the latest check at which the budget runs out
MaxDeepExpiry == 3

deepBoard(blackKing, knight, rook, pawn) ==
    placed({<<<<7, 4>>, Piece("king", WHITE, TRUE)>>,
            <<blackKing, Piece("king", BLACK, TRUE)>>}
           \cup (IF knight THEN {<<<<3, 0>>, Piece("knight", BLACK, TRUE)>>} ELSE {})
           \cup (IF rook THEN {<<<<7, 0>>, Piece("rook", WHITE, TRUE)>>} ELSE {})
           \cup (IF pawn THEN {<<<<6, 6>>, Piece("pawn", WHITE, FALSE)>>} ELSE {}))

InitDeep ==
    /\ \E blackKing \in {<<0, 7>>, <<5, 4>>}, knight \in BOOLEAN, rook \in BOOLEAN,
          pawn \in BOOLEAN :
          board = deepBoard(blackKing, knight, rook, pawn)
    /\ enPassantTarget = NoTarget
    /\ plies = 0
    /\ last = [kind |-> "init"]
    /\ currentPlayer = WHITE
    /\ gameStatus = "ongoing"
    /\ capturedPieces = [white |-> <<>>, black |-> <<>>]
    /\ movesSinceLastCaptureOrPawn = 0
    /\ positionHistory = <<>>
    /\ gameHistory = <<>>
    /\ historyIndex = -1
    /\ laserPointerCount = 3
    /\ boneCount = 3
    /\ isLaserPointerActive = FALSE
    /\ isBoneActive = FALSE
    /\ promotion = NoPromotion
    /\ gameSettings = DefaultSettings
    /\ botColor = WHITE
    /\ isBotThinking = FALSE
    /\ botTimer = NoTimer
    /\ forceTimer = NoTimer
    /\ moveCompleted = FALSE
    /\ saved = NoSave

\* one call calculateBotMove(board, botPlayer, {maxDepth, personality}) on
\* the converted board, the budget running out at the check numbered expiry
CallDeepCalculateBotMove(color, maxDepth, personality, expiry) ==
    /\ plies < MaxDeepCalls
    /\ \E logicBoard \in {convertToLogicBoard(board)} :
          \E search \in {deepSearch(logicBoard,
                                    IF color = WHITE THEN "dogs" ELSE "cats",
                                    maxDepth, personality, expiry)} :
              last' = [kind |-> "deepCalculateBotMove", side |-> color,
                       maxDepth |-> maxDepth, personality |-> personality,
                       expiry |-> expiry, returned |-> search.move,
                       key |-> search.key, calls |-> search.calls,
                       depths |-> search.depths]
    /\ plies' = plies + 1
    /\ UNCHANGED <<board, currentPlayer, enPassantTarget, gameStatus,
                   capturedPieces, movesSinceLastCaptureOrPawn,
                   positionHistory, gameHistory, historyIndex,
                   laserPointerCount, boneCount, isLaserPointerActive,
                   isBoneActive, promotion, gameSettings, botColor,
                   isBotThinking, botTimer, forceTimer, moveCompleted, saved>>

NextDeep ==
    \E color \in Colors, maxDepth \in 1..MaxDeepDepth,
       personality \in {"balanced", "aggressive"}, expiry \in 0..MaxDeepExpiry :
        CallDeepCalculateBotMove(color, maxDepth, personality, expiry)

SpecDeep == InitDeep /\ [][NextDeep]_vars


\* the root moves of the last depth of the search, by their place in the
\* list of what was evaluated at that depth
lastDepthEvaluated == last.depths[Len(last.depths)].evaluated

\* C32: with no timeout and balanced personality, the move returned by
\* calculateBotMove of the iterative-deepening search is, among the root
\* moves at the last depth, one whose position has the greatest minimax
\* value from the bot's point of view, the check and checkmate bonuses added.
C32_ReturnsGreatestMinimaxValue ==
    (/\ last.kind = "deepCalculateBotMove"
     /\ last.expiry = 0 /\ last.personality = "balanced"
     /\ last.returned # <<>>) =>
        \E i \in DOMAIN lastDepthEvaluated :
            /\ lastDepthEvaluated[i].move = last.key
            /\ \A j \in DOMAIN lastDepthEvaluated :
                   plus(lastDepthEvaluated[j].returned, lastDepthEvaluated[j].bonus)
                   <= plus(lastDepthEvaluated[i].returned, lastDepthEvaluated[i].bonus)



----------------------------------------------------------------------------
(* the three minimax functions at a node without a legal move: each called *)
(* with the full window on a board where the side to move is mated or      *)
(* stalemated, once with a remaining depth and once with one more          *)

MaxEndCalls == 1

\* the greatest remaining depth of the deeper of the two nodes
MaxEndDepth == 2

Implementations == {"quick", "chess-ai", "deepening"}

\* the value minimax of the implementation returns for the node
minimaxValue(impl, lb, depth, isMaximizing, aiPlayer, expiry) ==
    CASE impl = "quick" ->
             quickMinimax(lb, depth, isMaximizing, -Infinity, Infinity, aiPlayer,
                          expiry, 0, 0).value
      [] impl = "chess-ai" ->
             aiMinimax(lb, depth, isMaximizing, -Infinity, Infinity, aiPlayer,
                       expiry, 0, 0).value
      [] OTHER ->
             deepMinimax(lb, depth, -Infinity, Infinity, isMaximizing, aiPlayer,
                         expiry, 0).value

\* minimax called on the board as a node where `color` is to move and has no
\* legal move, with remaining depth `depth` and with depth + 1
CallMinimaxAtEnd(impl, color, depth, isMaximizing, expiry) ==
    /\ plies < MaxEndCalls
    /\ \E logicBoard \in {convertToLogicBoard(board)},
          player \in {IF color = WHITE THEN "dogs" ELSE "cats"} :
          /\ getAllLegalMoves(logicBoard, player) = {}
          /\ \E aiPlayer \in {IF isMaximizing THEN player ELSE opponentOf(player)} :
                last' = [kind |-> "minimax", impl |-> impl, side |-> color,
                         depth |-> depth, isMaximizing |-> isMaximizing,
                         expiry |-> expiry,
                         inCheck |-> isInCheck(logicBoard, player),
                         value |-> minimaxValue(impl, logicBoard, depth, isMaximizing,
                                                aiPlayer, expiry),
                         shallower |-> minimaxValue(impl, logicBoard, depth + 1,
                                                    isMaximizing, aiPlayer, expiry)]
    /\ plies' = plies + 1
    /\ UNCHANGED <<board, currentPlayer, enPassantTarget, gameStatus,
                   capturedPieces, movesSinceLastCaptureOrPawn,
                   positionHistory, gameHistory, historyIndex,
                   laserPointerCount, boneCount, isLaserPointerActive,
                   isBoneActive, promotion, gameSettings, botColor,
                   isBotThinking, botTimer, forceTimer, moveCompleted, saved>>

NextEnd ==
    \E impl \in Implementations, color \in Colors, depth \in 1..MaxEndDepth,
       isMaximizing \in BOOLEAN, expiry \in {0, 1} :
        CallMinimaxAtEnd(impl, color, depth, isMaximizing, expiry)

SpecEnd == InitMate /\ [][NextEnd]_vars

\* C33: with no timeout, minimax of each implementation at a node with
\* remaining depth > 0 where the side to move has no legal move returns 0
\* when that side is not in check; when it is in check, the value returned
\* with one more ply of remaining depth is strictly better for the mating
\* side (lower when the mated side maximizes, higher when it minimizes).
C33_EndNodeScores ==
    (last.kind = "minimax" /\ last.expiry = 0) =>
        IF ~last.inCheck
        THEN last.value = 0 /\ last.shallower = 0
        ELSE IF last.isMaximizing
        THEN last.shallower < last.value
        ELSE last.shallower > last.value



----------------------------------------------------------------------------
(* minimax of chess-ai on its own: called with the full window for a       *)
(* maximizing or a minimizing root on the boards of findBestMove on its own *)

MaxPruneCalls == 1

\* the greatest depth handed to minimax
MaxPruneDepth == 3

\* one call minimax(board, depth, isMaximizing, -Infinity, Infinity, aiPlayer)
\* after resetTimeout, the budget running out at the check numbered expiry
CallAiMinimax(color, depth, isMaximizing, expiry) ==
    /\ plies < MaxPruneCalls
    /\ \E logicBoard \in {convertToLogicBoard(board)} :
          \E r \in {aiMinimax(logicBoard, depth, isMaximizing, -Infinity, Infinity,
                              IF color = WHITE THEN "dogs" ELSE "cats", expiry, 0, 0)} :
              last' = [kind |-> "aiMinimax", side |-> color, depth |-> depth,
                       isMaximizing |-> isMaximizing, expiry |-> expiry,
                       value |-> r.value, calls |-> r.calls, nodes |-> r.nodes]
    /\ plies' = plies + 1
    /\ UNCHANGED <<board, currentPlayer, enPassantTarget, gameStatus,
                   capturedPieces, movesSinceLastCaptureOrPawn,
                   positionHistory, gameHistory, historyIndex,
                   laserPointerCount, boneCount, isLaserPointerActive,
                   isBoneActive, promotion, gameSettings, botColor,
                   isBotThinking, botTimer, forceTimer, moveCompleted, saved>>

NextPrune ==
    \E color \in Colors, depth \in 1..MaxPruneDepth, isMaximizing \in BOOLEAN,
       expiry \in {0, 1, 2} :
        CallAiMinimax(color, depth, isMaximizing, expiry)

SpecPrune == InitAi /\ [][NextPrune]_vars

RECURSIVE exhaustiveMinimax(_, _, _, _)

\* minimax without pruning: the greatest (maximizing) or least (minimizing)
\* value over all the legal moves, with the values of chess-ai at the leaves
\* and at the nodes without a legal move
exhaustiveMinimax(lb, depth, isMaximizing, aiPlayer) ==
    IF depth = 0 THEN aiEvaluateBoard(lb, aiPlayer)
    ELSE Only({
        IF moves = {}
        THEN (IF ~isInCheck(lb, sideToMove) THEN 0
              ELSE IF isMaximizing THEN -100000 ELSE 100000)
        ELSE Only({CHOOSE v \in values :
                       \A w \in values : IF isMaximizing THEN w <= v ELSE v <= w :
                   values \in {{exhaustiveMinimax(
                                    logicMakeMove(lb, MoveFrom(k), MoveTo(k)),
                                    depth - 1, ~isMaximizing, aiPlayer) :
                                k \in moves}}}) :
        <<sideToMove, moves>> \in
            {<<p, getAllLegalMoves(lb, p)>> :
             p \in {IF isMaximizing THEN aiPlayer ELSE opponentOf(aiPlayer)}}})

\* C34: with no timeout, minimax of chess-ai called with the full window
\* returns the value of exhaustive minimax over the same legal moves and
\* depth, for maximizing and for minimizing roots.
C34_PruningKeepsValue ==
    (last.kind = "aiMinimax" /\ last.expiry = 0) =>
        \A logicBoard \in {convertToLogicBoard(board)} :
            last.value = exhaustiveMinimax(logicBoard, last.depth, last.isMaximizing,
                                           IF last.side = WHITE THEN "dogs" ELSE "cats")

\* a maximizing root of depth 3 where a loop was left on beta <= alpha: with
\* no timeout a loop that runs to its end looks at all 4096 pairs
C34_MaximizingRootPruned ==
    /\ last.kind = "aiMinimax" /\ last.expiry = 0
    /\ last.depth = 3 /\ last.isMaximizing
    /\ last.nodes % 4096 # 0

C34_MinimizingRootPruned ==
    /\ last.kind = "aiMinimax" /\ last.expiry = 0
    /\ last.depth = 3 /\ ~last.isMaximizing
    /\ last.nodes % 4096 # 0


\* C35: calculateBotMove of chess-bot returns a move whenever the side has
\* one, and the move it returns has fewer than N moves ranked before it,
\* N = 1 at difficulty hard, 3 at medium and 5 at easy; a move ranks before
\* another when its score is higher, or equal and it was generated first.
C35_DifficultyPicksAmongBest ==
    last.kind = "calculateBotMove" =>
        \A scored \in {scoreMoves(board, last.target,
                                  getAllValidMoves(board, last.target, last.side),
                                  last.side, last.personality)} :
            /\ (scored # {}) => (last.returned # {})
            /\ \A k \in last.returned : \E m \in scored :
                   /\ m[1] = k
                   /\ Cardinality({o \in scored :
                          o[2] > m[2] \/ (o[2] = m[2] /\ o[1] < m[1])})
                      < (CASE last.difficulty = "hard" -> 1
                           [] last.difficulty = "medium" -> 3
                           [] OTHER -> 5)

\* a call at medium that may return any of three moves, the third of which
\* has the score of a move generated after it
C35_TieBelowTopThree ==
    /\ last.kind = "calculateBotMove"
    /\ last.difficulty = "medium"
    /\ Cardinality(last.returned) = 3
    /\ \E scored \in {scoreMoves(board, last.target,
                                 getAllValidMoves(board, last.target, last.side),
                                 last.side, last.personality)} :
          \E m \in scored, o \in scored :
              /\ m[1] \in last.returned /\ o[1] \notin last.returned
              /\ m[2] = o[2] /\ m[1] < o[1]

\* a call at easy that may return any of five moves
C35_EasyTopFive ==
    /\ last.kind = "calculateBotMove"
    /\ last.difficulty = "easy"
    /\ Cardinality(last.returned) = 5


\* C36: each of the two timer references holds at most one pending timer;
\* a pending search timer and the pending forced-fallback timer stem from
\* the same run of the bot-move effect, which is still marked as thinking;
\* and a run of the effect schedules a search only when no search timer is
\* pending, or the pending one has just run (the step is its callback) or
\* has just been cancelled by startNewGame.
C36_OneSearchPending ==
    /\ [](botTimer.pending => (isBotThinking /\ forceTimer = botTimer))
    /\ [][(botTimer'.pending /\ botTimer' # botTimer)
              => \/ ~botTimer.pending
                 \/ last'.kind \in {"new", "bot", "botThrow", "botNone", "botLate"}]_vars

\* undo changed the board under a pending search, and no search was added
C36_UndoWhileSearchPending ==
    /\ last.kind = "undo"
    /\ botTimer.pending /\ forceTimer.pending
    /\ botTimer.closure.board # board

\* a search was scheduled while the forced-fallback timer of the search
\* before it, which threw, had not fired
C36_SearchAfterThrow ==
    /\ last.prevKind = "botThrow"
    /\ botTimer.pending /\ forceTimer.pending


\* C37: the ability counters never go below zero; a laser-pointer placement
\* happens on White's turn with a positive laser counter and a bone
\* placement on Black's turn with a positive bone counter, and a placement
\* takes exactly one from its counter, leaves the other counter alone and
\* hands the turn to the other side.
C37_AbilitiesGatedAndCounted ==
    /\ [](laserPointerCount >= 0 /\ boneCount >= 0)
    /\ [][last'.kind = "laser" =>
              /\ currentPlayer = WHITE /\ laserPointerCount > 0
              /\ laserPointerCount' = laserPointerCount - 1
              /\ boneCount' = boneCount
              /\ currentPlayer' = BLACK]_vars
    /\ [][last'.kind = "bone" =>
              /\ currentPlayer = BLACK /\ boneCount > 0
              /\ boneCount' = boneCount - 1
              /\ laserPointerCount' = laserPointerCount
              /\ currentPlayer' = WHITE]_vars



----------------------------------------------------------------------------
(* ChessGame with pawns one step from the last row: a game in play on the  *)
(* promotion board, White to move, against the bot playing Black or        *)
(* between two players; the history holds the entry of the position        *)

DialogSettings ==
    {[gameMode |-> "pvbot", crazyMode |-> FALSE, playerColor |-> "white",
      botDifficulty |-> "hard", botPersonality |-> "balanced", specialAbilityCount |-> 0],
     [gameMode |-> "pvp", crazyMode |-> FALSE, playerColor |-> "none",
      botDifficulty |-> "none", botPersonality |-> "none", specialAbilityCount |-> 0]}

DialogFrom == {<<1, 0>>, <<7, 4>>, <<6, 7>>, <<0, 4>>}
DialogTo == {<<0, 0>>, <<0, 1>>, <<7, 3>>, <<7, 6>>, <<7, 7>>, <<0, 3>>}

InitDialog ==
    /\ board = promotionBoard
    /\ enPassantTarget = NoTarget
    /\ currentPlayer = WHITE
    /\ gameStatus = "ongoing"
    /\ capturedPieces = [white |-> <<>>, black |-> <<>>]
    /\ movesSinceLastCaptureOrPawn = 0
    /\ positionHistory = <<boardToString(promotionBoard)>>
    /\ gameHistory = <<[board |-> promotionBoard, currentPlayer |-> WHITE,
                       capturedPieces |-> [white |-> <<>>, black |-> <<>>],
                       laserPointerCount |-> 3, boneCount |-> 3,
                       enPassantTarget |-> NoTarget,
                       movesSinceLastCaptureOrPawn |-> 0,
                       positionHistory |-> <<boardToString(promotionBoard)>>]>>
    /\ historyIndex = 0
    /\ laserPointerCount = 3
    /\ boneCount = 3
    /\ isLaserPointerActive = FALSE
    /\ isBoneActive = FALSE
    /\ promotion = NoPromotion
    /\ \E settings \in DialogSettings :
          /\ gameSettings = settings
          /\ botColor = IF settings.gameMode = "pvbot" THEN BLACK ELSE "none"
    /\ isBotThinking = FALSE
    /\ botTimer = NoTimer
    /\ forceTimer = NoTimer
    /\ moveCompleted = FALSE
    /\ saved = NoSave
    /\ plies = 0
    /\ last = [kind |-> "init", side |-> "none", from |-> <<-1, -1>>,
               to |-> <<-1, -1>>, pre |-> Observed, prevKind |-> "none",
               before |-> Observed, searched |-> promotionBoard, target |-> NoTarget]

NextDialog ==
    \/ \E from \in DialogFrom, to \in DialogTo : HumanMove(from, to)
    \/ \E pieceType \in PromotionTypes : PromotionSelect(pieceType)
    \/ undoMove
    \/ redoMove
    \/ \E throws \in BOOLEAN : BotTimerFire(throws)
    \/ ForceTimerFire

SpecDialog == InitDialog /\ [][NextDialog]_vars

\* C38: while the promotion dialog is open and until a piece is chosen, the
\* board and the side to move stay as they are, the dialog stays open and no
\* bot search is scheduled; the human move that opens the dialog changes
\* neither; choosing a piece puts a piece of the mover's side on the
\* promotion square of the pending board, adds one position signature and
\* hands the turn over; a bot pawn moved to the farthest row is a queen
\* when the ply is done.
C38_PromotionPending ==
    /\ [][(promotion.show /\ last'.kind # "promote") =>
              /\ board' = board /\ currentPlayer' = currentPlayer
              /\ promotion'.show
              /\ ~(botTimer'.pending /\ botTimer' # botTimer)]_vars
    /\ [][last'.kind = "pending" =>
              /\ board' = board /\ currentPlayer' = currentPlayer
              /\ promotion'.show /\ promotion'.position = last'.to
              /\ botTimer' = botTimer]_vars
    /\ [][last'.kind = "promote" =>
              /\ promotion.show /\ ~promotion'.show
              /\ board'[promotion.position].type \in PromotionTypes
              /\ board'[promotion.position].color = promotion.color
              /\ \A p \in Pos \ {promotion.position} :
                     board'[p] = promotion.pendingBoard[p]
              /\ Len(positionHistory') = Len(positionHistory) + 1
              /\ positionHistory'[Len(positionHistory')] = boardToString(board')
              /\ currentPlayer' = flip(currentPlayer)]_vars
    /\ [][(/\ last'.kind \in {"bot", "force"}
           /\ last'.searched[last'.from].type = "pawn"
           /\ last'.to[1] \in {0, 7}) =>
              board'[last'.to] = Piece("queen", last'.side, TRUE)]_vars



----------------------------------------------------------------------------
(* ChessGame one move from the end: a game in play with White (the human)  *)
(* to move, the queen on c1 able to mate on c8 or to stalemate on c7,      *)
(* against the bot playing Black or between two players                    *)

mateInOneBoard ==
    placed({<<<<2, 1>>, Piece("king", WHITE, TRUE)>>,
            <<<<7, 2>>, Piece("queen", WHITE, TRUE)>>,
            <<<<0, 0>>, Piece("king", BLACK, TRUE)>>})

EndFrom == {<<7, 2>>, <<0, 0>>, <<2, 1>>}
EndTo == {<<0, 2>>, <<1, 2>>, <<7, 3>>, <<0, 1>>, <<3, 1>>}

InitEnding ==
    /\ board = mateInOneBoard
    /\ enPassantTarget = NoTarget
    /\ currentPlayer = WHITE
    /\ gameStatus = "ongoing"
    /\ capturedPieces = [white |-> <<>>, black |-> <<>>]
    /\ movesSinceLastCaptureOrPawn = 0
    /\ positionHistory = <<boardToString(mateInOneBoard)>>
    /\ gameHistory = <<[board |-> mateInOneBoard, currentPlayer |-> WHITE,
                       capturedPieces |-> [white |-> <<>>, black |-> <<>>],
                       laserPointerCount |-> 3, boneCount |-> 3,
                       enPassantTarget |-> NoTarget,
                       movesSinceLastCaptureOrPawn |-> 0,
                       positionHistory |-> <<boardToString(mateInOneBoard)>>]>>
    /\ historyIndex = 0
    /\ laserPointerCount = 3
    /\ boneCount = 3
    /\ isLaserPointerActive = FALSE
    /\ isBoneActive = FALSE
    /\ promotion = NoPromotion
    /\ \E settings \in DialogSettings :
          /\ gameSettings = settings
          /\ botColor = IF settings.gameMode = "pvbot" THEN BLACK ELSE "none"
    /\ isBotThinking = FALSE
    /\ botTimer = NoTimer
    /\ forceTimer = NoTimer
    /\ moveCompleted = FALSE
    /\ saved = NoSave
    /\ plies = 0
    /\ last = [kind |-> "init", side |-> "none", from |-> <<-1, -1>>,
               to |-> <<-1, -1>>, pre |-> Observed, prevKind |-> "none",
               before |-> Observed, searched |-> mateInOneBoard, target |-> NoTarget]

NextEnding ==
    \/ \E from \in EndFrom, to \in EndTo : HumanMove(from, to)
    \/ undoMove
    \/ redoMove
    \/ \E throws \in BOOLEAN : BotTimerFire(throws)
    \/ ForceTimerFire

SpecEnding == InitEnding /\ [][NextEnding]_vars

\* C39: once the game status is checkmate, stalemate or a draw, no step but
\* undo, redo, a new game or a load changes the board or the side to move;
\* and when the bot has been checkmated, the callbacks of its turn leave the
\* side to move and the status as they are.
C39_NothingMovesAfterTheEnd ==
    /\ [][(isGameOver(gameStatus) /\ last'.kind \notin {"undo", "redo", "new", "load"})
              => (board' = board /\ currentPlayer' = currentPlayer)]_vars
    /\ [][(/\ gameStatus \in {"checkmate-white", "checkmate-black"}
           /\ currentPlayer = botColor
           /\ last'.kind \in {"bot", "botThrow", "botNone", "botLate",
                              "force", "forceNone", "forceLate"})
              => (currentPlayer' = currentPlayer /\ gameStatus' = gameStatus)]_vars


----------------------------------------------------------------------------
(* boardToString as a position signature: the function is applied to two   *)
(* boards of one family and the signatures are compared.                   *)

MaxSignatureCalls == 1

SignatureSquares == {<<7, 4>>, <<5, 3>>, <<4, 0>>}
SignatureTypes == {"queen", "rook", "bishop", "knight", "pawn"}

\* the black king on e8, the white king and one more white piece on two
\* different squares of SignatureSquares
signatureBoard(king, type, square, moved) ==
    placed({<<<<0, 4>>, Piece("king", BLACK, FALSE)>>,
            <<king, Piece("king", WHITE, TRUE)>>,
            <<square, Piece(type, WHITE, moved)>>})

SignatureBoards ==
    UNION {{signatureBoard(king, type, square, moved) :
                type \in SignatureTypes, moved \in BOOLEAN,
                square \in SignatureSquares \ {king}} :
           king \in {<<7, 4>>, <<5, 3>>}}

InitSignature ==
    /\ board \in SignatureBoards
    /\ enPassantTarget = NoTarget
    /\ plies = 0
    /\ last = [kind |-> "init"]
    /\ currentPlayer = WHITE
    /\ gameStatus = "ongoing"
    /\ capturedPieces = [white |-> <<>>, black |-> <<>>]
    /\ movesSinceLastCaptureOrPawn = 0
    /\ positionHistory = <<>>
    /\ gameHistory = <<>>
    /\ historyIndex = -1
    /\ laserPointerCount = 3
    /\ boneCount = 3
    /\ isLaserPointerActive = FALSE
    /\ isBoneActive = FALSE
    /\ promotion = NoPromotion
    /\ gameSettings = DefaultSettings
    /\ botColor = WHITE
    /\ isBotThinking = FALSE
    /\ botTimer = NoTimer
    /\ forceTimer = NoTimer
    /\ moveCompleted = FALSE
    /\ saved = NoSave

\* boardToString(board) and boardToString(other), called one after the other
CallBoardToString(other) ==
    /\ plies < MaxSignatureCalls
    /\ last' = [kind |-> "boardToString", other |-> other,
                returned |-> boardToString(board),
                returnedOther |-> boardToString(other)]
    /\ plies' = plies + 1
    /\ UNCHANGED <<board, currentPlayer, enPassantTarget, gameStatus,
                   capturedPieces, movesSinceLastCaptureOrPawn,
                   positionHistory, gameHistory, historyIndex,
                   laserPointerCount, boneCount, isLaserPointerActive,
                   isBoneActive, promotion, gameSettings, botColor,
                   isBotThinking, botTimer, forceTimer, moveCompleted, saved>>

NextSignature == \E other \in SignatureBoards : CallBoardToString(other)

SpecSignature == InitSignature /\ [][NextSignature]_vars

\* every square holds a piece of the same type and the same side, or is
\* empty, in both boards
samePieces(b1, b2) ==
    \A p \in Pos :
        \/ b1[p] = null /\ b2[p] = null
        \/ /\ b1[p] # null
           /\ b2[p] # null
           /\ b1[p].type = b2[p].type
           /\ b1[p].color = b2[p].color

\* C40: boardToString gives two boards the same signature iff every square
\* holds a piece of the same type and the same side, or is empty, in both
\* boards; boards that differ in the type of a piece on some square never
\* share a signature.
C40_SignatureIdentifiesPosition ==
    last.kind = "boardToString"
        => ((last.returned = last.returnedOther) <=> samePieces(board, last.other))

====
